---- MODULE Spec2Model ----
(***************************************************************************)
(* State-machine model of tbl-js: DataColumn, DataColumnCollection,        *)
(* DataRow, DataRowCollection, DataTable, DataRelation and DataSet.        *)
(*                                                                         *)
(* JavaScript values are tagged records [t, n, s]:                         *)
(*   t = "null" | "undefined" | "number" | "nan" | "string" | "boolean"    *)
(*       | "date";  n = the number, the boolean (0/1) or the timestamp;    *)
(*   s = the characters of a string, one per element.                      *)
(* Objects with identity (tables, rows) live in maps from identifiers.     *)
(***************************************************************************)
EXTENDS Integers, Sequences, FiniteSets, TLC

\* ------------------------------------------------------------------ bounds
MaxCols == 3      \* columns of a table
MaxRows == 2      \* row objects, and rows of a table, in Spec, SpecSetRows, SpecFind,
                  \*   SpecClone, SpecSelect and SpecView
MaxSetRows == 1   \* row objects, and rows of a table, in SpecSet and SpecTrack; row
                  \*   objects before the clone in SpecDsClone
MaxDsRows == 3    \* row objects, and rows of a table, in SpecDS, SpecNav, SpecSort and
                  \*   SpecDsClone
MaxRels == 2      \* relations of the dataset

\* ------------------------------------------------------------- JS values
NoChars == << >>
Null == [t |-> "null", n |-> 0, s |-> NoChars]
Undef == [t |-> "undefined", n |-> 0, s |-> NoChars]
NaN == [t |-> "nan", n |-> 0, s |-> NoChars]
Num(k) == [t |-> "number", n |-> k, s |-> NoChars]
Str(cs) == [t |-> "string", n |-> 0, s |-> cs]
Bool(b) == [t |-> "boolean", n |-> IF b THEN 1 ELSE 0, s |-> NoChars]
DateV(ts) == [t |-> "date", n |-> ts, s |-> NoChars]

Digits == <<"0", "1", "2", "3", "4", "5", "6", "7", "8", "9">>

IsDigit(c) == \E i \in 1..Len(Digits) : Digits[i] = c

DigitVal(c) == (CHOOSE i \in 1..Len(Digits) : Digits[i] = c) - 1

AllDigits(cs) == \A i \in 1..Len(cs) : IsDigit(cs[i])

RECURSIVE DecimalValue(_)
DecimalValue(cs) ==
    IF cs = NoChars THEN 0
    ELSE 10 * DecimalValue(SubSeq(cs, 1, Len(cs) - 1)) + DigitVal(cs[Len(cs)])

RECURSIVE DecimalChars(_)
DecimalChars(k) ==
    IF k < 10 THEN <<Digits[k + 1]>>
    ELSE DecimalChars(k \div 10) \o <<Digits[(k % 10) + 1]>>

\* Number(value): the empty string is 0, a run of digits is its decimal
\* value, any other string is NaN; undefined is NaN; true is 1, false is 0.
NumberOf(v) ==
    CASE v.t = "null" -> Num(0)
      [] v.t = "undefined" -> NaN
      [] v.t = "number" -> v
      [] v.t = "nan" -> NaN
      [] v.t = "boolean" -> Num(v.n)
      [] v.t = "date" -> Num(v.n)
      [] v.t = "string" ->
            IF AllDigits(v.s) THEN Num(DecimalValue(v.s)) ELSE NaN

\* isNaN(x) for an x that is already a number
IsNaN(v) == v.t = "nan"

\* String(value)
StringOf(v) ==
    CASE v.t = "null" -> Str(<<"n", "u", "l", "l">>)
      [] v.t = "undefined" -> Str(<<"u", "n", "d", "e", "f", "i", "n", "e", "d">>)
      [] v.t = "number" -> Str(DecimalChars(v.n))
      [] v.t = "nan" -> Str(<<"N", "a", "N">>)
      [] v.t = "boolean" ->
            IF v.n = 1 THEN Str(<<"t", "r", "u", "e">>)
            ELSE Str(<<"f", "a", "l", "s", "e">>)
      [] v.t = "date" -> Str(<<"D">> \o DecimalChars(v.n))
      [] v.t = "string" -> v

\* Boolean(value): falsy are null, undefined, 0, NaN, "" and false
BooleanOf(v) ==
    CASE v.t \in {"null", "undefined", "nan"} -> Bool(FALSE)
      [] v.t = "number" -> Bool(v.n # 0)
      [] v.t = "boolean" -> v
      [] v.t = "string" -> Bool(v.s # NoChars)
      [] v.t = "date" -> Bool(TRUE)

\* Date.parse(value) on a non-Date: the argument is read as a string.  A
\* string that is no date (letters, the empty string) parses to NaN.  A bare
\* run of digits is outside the standard date format: the engine either
\* rejects it (NaN) or reads it with its own heuristics; the instant it then
\* reads is written EngineInstant.  The result is the set of possible outcomes.
EngineInstant(cs) == 1000 + DecimalValue(cs)

DateParse(v) ==
    LET cs == StringOf(v).s
    IN  IF cs # NoChars /\ AllDigits(cs)
        THEN {NaN, Num(EngineInstant(cs))}
        ELSE {NaN}

\* new Date(value): a Date is copied, a number is the timestamp itself, a
\* string is parsed (p is the outcome Date.parse gave for it).
NewDate(v, p) ==
    CASE v.t = "date" -> v
      [] v.t = "number" -> DateV(v.n)
      [] OTHER -> DateV(p.n)


\* ------------------------------------------------------- maps (JS objects)
EmptyMap == [k \in {} |-> Null]

Put(m, k, v) == [x \in (DOMAIN m) \cup {k} |-> IF x = k THEN v ELSE m[x]]

Delete(m, k) == [x \in (DOMAIN m) \ {k} |-> m[x]]

\* obj[key]: a missing property reads as undefined
Prop(m, k) == IF k \in DOMAIN m THEN m[k] ELSE Undef

\* ------------------------------------------------------------ identifiers
TableIds == {"t1", "t2"}
CloneIds == {"t3", "t4"}     \* the table objects that clone makes
TableSlots == TableIds \cup CloneIds
NoTable == "none"
RowIds == 1..(IF MaxRows > MaxDsRows THEN MaxRows ELSE MaxDsRows)
ColNames == {"a", "b"}
DataTypes == {"null", "number", "string", "boolean", "date"}

ADDED == "ADDED"
MODIFIED == "MODIFIED"

\* ----------------------------------------------------------- DataColumn
DataColumn(columnName, dataType, allowNull, defaultValue) ==
    [columnName |-> columnName, dataType |-> dataType, ordinal |-> -1,
     allowNull |-> allowNull, defaultValue |-> defaultValue,
     caption |-> columnName, expression |-> Null, readOnly |-> FALSE, unique |-> FALSE,
     isPrimaryKey |-> FALSE, table |-> NoTable]

\* ------------------------------------------------- DataColumnCollection
\* _columns is a Map: a sequence of columns in insertion order, names distinct
ColumnNames(cols) == {cols[i].columnName : i \in 1..Len(cols)}

Contains(cols, name) == name \in ColumnNames(cols)

GetColumn(cols, name) ==
    cols[CHOOSE i \in 1..Len(cols) : cols[i].columnName = name]

\* add: column._table = table; column.ordinal = size; _columns.set(name, column)
ColumnsAdd(cols, column, t) ==
    Append(cols, [column EXCEPT !.table = t, !.ordinal = Len(cols)])

\* add: every row of the table gets the column's default
BackfillRows(h, rowSeq, column) ==
    [r \in DOMAIN h |->
        IF \E i \in 1..Len(rowSeq) : rowSeq[i] = r
        THEN [h[r] EXCEPT !.values = Put(@, column.columnName, column.defaultValue)]
        ELSE h[r]]

\* remove: the ordinals of the remaining columns are renumbered 0, 1, ...
Renumber(cols) == [i \in 1..Len(cols) |-> [cols[i] EXCEPT !.ordinal = i - 1]]

\* a remove that leaves the ordinals of the remaining columns as they were
ColumnsRemoveStale(cols, name) == SelectSeq(cols, LAMBDA c : c.columnName # name)

\* remove: _columns.delete(name), then renumber
ColumnsRemove(cols, name) ==
    Renumber(SelectSeq(cols, LAMBDA c : c.columnName # name))

\* remove: delete row._values[name] in every row of the table
StripRows(h, rowSeq, name) ==
    [r \in DOMAIN h |->
        IF \E i \in 1..Len(rowSeq) : rowSeq[i] = r
        THEN [h[r] EXCEPT !.values = Delete(@, name)]
        ELSE h[r]]

\* ---------------------------------------------------------------- DataRow
\* a slot of the row map that holds no object
NoRow == [table |-> NoTable, values |-> EmptyMap, rowState |-> "FREE",
          originalValues |-> EmptyMap]

\* constructor: every column of the table at its default, state ADDED
DataRow(t, cols) ==
    [table |-> t,
     values |-> [n \in ColumnNames(cols) |-> GetColumn(cols, n).defaultValue],
     rowState |-> ADDED,
     originalValues |-> EmptyMap]

\* a get that reads the value without looking for the column
RowGetLenient(row, cols, name) == [err |-> "", value |-> Prop(row.values, name)]

\* get(name)
RowGet(row, cols, name) ==
    IF ~Contains(cols, name) THEN [err |-> "NotFound", value |-> Undef]
    ELSE [err |-> "", value |-> Prop(row.values, name)]

\* a type validation whose number case checks the value and stores it as given
CoerceUnconverted(column, value, p) ==
    IF value # Null /\ column.dataType = "number" /\ IsNaN(NumberOf(value))
    THEN [err |-> "TypeCoercionError", value |-> value]
    ELSE [err |-> "", value |-> value]

\* set, the type validation: the value stored, or the error raised.
\* p is the outcome of Date.parse(value), read by the date case only.
Coerce(column, value, p) ==
    IF value # Null /\ column.dataType # "null"
    THEN CASE column.dataType = "number" ->
                IF IsNaN(NumberOf(value))
                THEN [err |-> "TypeCoercionError", value |-> value]
                ELSE [err |-> "", value |-> NumberOf(value)]
           [] column.dataType = "date" ->
                IF value.t # "date" /\ IsNaN(p)
                THEN [err |-> "TypeCoercionError", value |-> value]
                ELSE [err |-> "", value |-> NewDate(value, p)]
           [] column.dataType = "string" ->
                [err |-> "", value |-> StringOf(value)]
           [] column.dataType = "boolean" ->
                [err |-> "", value |-> IF value.t # "boolean" THEN BooleanOf(value) ELSE value]
           [] OTHER -> [err |-> "", value |-> value]
    ELSE [err |-> "", value |-> value]

\* set, the null validation
NullRejected(column, value) == value = Null /\ ~column.allowNull

\* a write that leaves a row in state ADDED in that state
StoreKeepAdded(row, name, value) ==
    [row EXCEPT
        !.originalValues = IF name \in DOMAIN @ THEN @
                           ELSE Put(@, name, Prop(row.values, name)),
        !.values = Put(@, name, value),
        !.rowState = IF @ = ADDED THEN ADDED ELSE MODIFIED]

\* a write that snapshots the previous value on every call
StoreOverwrite(row, name, value) ==
    [row EXCEPT
        !.originalValues = Put(@, name, Prop(row.values, name)),
        !.values = Put(@, name, value),
        !.rowState = MODIFIED]

\* set, the write: snapshot on the first write of the column, store, MODIFIED
Store(row, name, value) ==
    [row EXCEPT
        !.originalValues = IF name \in DOMAIN @ THEN @
                           ELSE Put(@, name, Prop(row.values, name)),
        !.values = Put(@, name, value),
        !.rowState = MODIFIED]

\* a set that snapshots the previous value before it validates the new one
RowSetSnapshotFirst(row, cols, name, value, p) ==
    IF ~Contains(cols, name) THEN [err |-> "NotFound", row |-> row]
    ELSE LET column == GetColumn(cols, name)
             c == Coerce(column, value, p)
             snap == [row EXCEPT !.originalValues =
                          IF name \in DOMAIN @ THEN @
                          ELSE Put(@, name, Prop(row.values, name))]
         IN  IF NullRejected(column, value)
             THEN [err |-> "NullNotAllowed", row |-> snap]
             ELSE IF c.err # "" THEN [err |-> c.err, row |-> snap]
             ELSE [err |-> "", row |-> Store(row, name, c.value)]

\* set(columnName, value): the error raised ("" for none) and the row after
RowSet(row, cols, name, value, p) ==
    IF ~Contains(cols, name) THEN [err |-> "NotFound", row |-> row]
    ELSE LET column == GetColumn(cols, name)
             c == Coerce(column, value, p)
         IN  IF NullRejected(column, value)
             THEN [err |-> "NullNotAllowed", row |-> row]
             ELSE IF c.err # "" THEN [err |-> c.err, row |-> row]
             ELSE [err |-> "", row |-> Store(row, name, c.value)]

\* ------------------------------------------------------ DataRowCollection
\* add(array): newRow._values[col.columnName] = row[index] for every column
RowFromArray(row, cols, arr) ==
    [row EXCEPT !.values =
        [n \in (DOMAIN @) \cup ColumnNames(cols) |->
            IF Contains(cols, n)
            THEN LET index == (CHOOSE i \in 1..Len(cols) : cols[i].columnName = n) - 1
                 IN  IF index < Len(arr) THEN arr[index + 1] ELSE Undef
            ELSE @[n]]]

\* add(object): newRow._values[key] = value for every key that is a column
RowFromObject(row, cols, obj) ==
    [row EXCEPT !.values =
        [n \in (DOMAIN @) \cup (DOMAIN obj \cap ColumnNames(cols)) |->
            IF n \in DOMAIN obj /\ Contains(cols, n) THEN obj[n] ELSE @[n]]]

\* a removeAt whose range check starts at 1
RemoveAtFromOne(rowSeq, index) ==
    IF index > 0 /\ index < Len(rowSeq)
    THEN SubSeq(rowSeq, 1, index) \o SubSeq(rowSeq, index + 2, Len(rowSeq))
    ELSE rowSeq

\* removeAt(index): splice when 0 <= index < length
RemoveAt(rowSeq, index) ==
    IF index >= 0 /\ index < Len(rowSeq)
    THEN SubSeq(rowSeq, 1, index) \o SubSeq(rowSeq, index + 2, Len(rowSeq))
    ELSE rowSeq


\* ------------------------------------------------------------------ state
VARIABLES
    tables,   \* table id -> [tableName, columns, rows]: the DataTable objects;
              \*   columns is the column collection, rows the row collection
              \*   (a sequence of row ids: the same row object may occur twice)
    heap,     \* row id -> the DataRow object, or NoRow
    hist,     \* row id -> what set has done to the row since it was created
    ds,       \* the DataSet: tables (a Map by table name, in insertion order,
              \*   as a sequence of table ids) and relations (an array)
    last,     \* the last call: its name, its arguments, the error it raised
              \*   and what it returned
    env       \* what the caller holds between calls: its view of a table, the
              \*   objects select returned, the clone of a table and the clone
              \*   of the dataset

vars == <<tables, heap, hist, ds, last, env>>

TableName(t) == IF t = "t1" THEN "P" ELSE IF t = "t2" THEN "C" ELSE ""

NoHist == [everSet |-> FALSE, firstPrev |-> EmptyMap]

NoArr == << >>

\* the record of a call: op its name, err the error it raised ("" for none);
\* t, r, name, value, index, arr, obj its arguments (the table, the row, a
\* column, table or relation name, a value, an index, an array, an object);
\* criteria the criteria object of a findRows or findOne; order the order of
\* a sort;
\* before the value the column of a set held when set was called; for
\* removeColumn index is the ordinal the removed column had, for removeTable
\* the number of relations the dataset had; out what a
\* query returned (a sequence of rows or of values), for sort the rows of
\* the table before the call
\* the result of updateSchema before anything is done
NoReport == [addedColumns |-> << >>, removedColumns |-> << >>, modifiedColumns |-> << >>]

NoCall ==
    [op |-> "new", err |-> "", t |-> NoTable, r |-> 0, name |-> "", value |-> Undef,
     index |-> 0, arr |-> NoArr, obj |-> EmptyMap, before |-> Undef, out |-> << >>,
     criteria |-> EmptyMap, order |-> "", rows |-> << >>, report |-> NoReport]

\* the caller holds nothing yet
\* a view's filter: null, a function (a predicate descriptor) or a criteria
\* object
NoPred == [kind |-> "none", name |-> "", value |-> Undef]
NoFilter == [kind |-> "null", pred |-> NoPred, criteria |-> EmptyMap]
FunctionFilter(pred) == [kind |-> "function", pred |-> pred, criteria |-> EmptyMap]
CriteriaFilter(criteria) == [kind |-> "criteria", pred |-> NoPred, criteria |-> criteria]

\* no view made yet
NoView == [table |-> NoTable, filter |-> NoFilter, sort |-> "", order |-> "asc"]

\* schema.primaryKey: null, or the names of the primary-key columns
NoKey == [isNull |-> TRUE, names |-> << >>]

\* no schema exported yet
NoSchema == [tableName |-> "", caseSensitive |-> FALSE, columns |-> << >>,
             primaryKey |-> NoKey, uniqueConstraints |-> << >>]

NoEnv == [view |-> NoView, held |-> << >>, clone |-> NoTable,
          ds2 |-> [tables |-> << >>, relations |-> << >>], schema |-> NoSchema]

Init ==
    /\ tables = [t \in TableSlots |->
                    [tableName |-> TableName(t), caseSensitive |-> FALSE,
                     columns |-> << >>, rows |-> << >>]]
    /\ heap = [r \in RowIds |-> NoRow]
    /\ hist = [r \in RowIds |-> NoHist]
    /\ ds = [tables |-> << >>, relations |-> << >>]
    /\ last = NoCall
    /\ env = NoEnv

Columns(t) == tables[t].columns
Rows(t) == tables[t].rows

Allocated(r) == heap[r] # NoRow
FreeIds == {r \in RowIds : ~Allocated(r)}
NextId == CHOOSE r \in FreeIds : \A q \in FreeIds : r <= q

InRows(rowSeq, r) == \E i \in 1..Len(rowSeq) : rowSeq[i] = r

\* ------------------------------------------------------------- inputs
\* values handed to set
SetValues == {Null, Undef, Num(42), Str(<<"4", "2">>), Str(<<"a">>), Bool(TRUE)}
\* columns handed to add: addColumn(name) and a typed, non-nullable column with
\* a default for the table specification; every type for the set specification
TableColumns ==
    {DataColumn(n, "null", TRUE, Null) : n \in ColNames}
        \cup {DataColumn(n, "number", FALSE, Num(7)) : n \in ColNames}
TypedColumns ==
    {DataColumn("a", dt, an, Null) : dt \in DataTypes, an \in BOOLEAN}
ArrayInputs == {<< >>, <<Str(<<"4", "2">>)>>}
Keys == ColNames \cup {"z"}
ObjectInputs ==
    UNION {[ks -> {Null, Str(<<"4", "2">>)}] : ks \in SUBSET {"a", "z"}}
IndexInputs == -1..MaxDsRows

\* ------------------------------------------------------------ operations
\* an add that takes a column whose name the table already has
AddColumnUnchecked(t, column) ==
    /\ Len(Columns(t)) < MaxCols
    /\ tables' = [tables EXCEPT ![t].columns = ColumnsAdd(@, column, t)]
    /\ heap' = BackfillRows(heap, Rows(t), column)
    /\ last' = [NoCall EXCEPT !.op = "addColumn", !.t = t,
                             !.name = column.columnName,
                             !.value = column.defaultValue]
    /\ UNCHANGED <<hist, ds, env>>

\* DataTable.addColumn / DataColumnCollection.add
AddColumn(t, column) ==
    /\ Contains(Columns(t), column.columnName) \/ Len(Columns(t)) < MaxCols
    /\ IF Contains(Columns(t), column.columnName)
       THEN /\ last' = [NoCall EXCEPT !.op = "addColumn", !.err = "DuplicateName", !.t = t,
                                     !.name = column.columnName,
                                     !.value = column.defaultValue]
            /\ UNCHANGED <<tables, heap, hist, ds, env>>
       ELSE /\ tables' = [tables EXCEPT ![t].columns = ColumnsAdd(@, column, t)]
            /\ heap' = BackfillRows(heap, Rows(t), column)
            /\ last' = [NoCall EXCEPT !.op = "addColumn", !.t = t,
                                     !.name = column.columnName,
                                     !.value = column.defaultValue]
            /\ UNCHANGED <<hist, ds, env>>

\* DataTable.removeColumn / DataColumnCollection.remove
RemoveColumn(t, name) ==
    IF ~Contains(Columns(t), name)
    THEN /\ last' = [NoCall EXCEPT !.op = "removeColumn", !.err = "NotFound",
                                   !.t = t, !.name = name]
         /\ UNCHANGED <<tables, heap, hist, ds, env>>
    ELSE /\ tables' = [tables EXCEPT ![t].columns = ColumnsRemove(@, name)]
         /\ heap' = StripRows(heap, Rows(t), name)
         /\ last' = [NoCall EXCEPT !.op = "removeColumn", !.t = t, !.name = name,
                                  !.index = GetColumn(Columns(t), name).ordinal]
         /\ UNCHANGED <<hist, ds, env>>

\* DataTable.newRow: a row of the table that is in no row collection yet
NewRow(t) ==
    /\ FreeIds # {}
    /\ heap' = [heap EXCEPT ![NextId] = DataRow(t, Columns(t))]
    /\ hist' = [hist EXCEPT ![NextId] = NoHist]
    /\ last' = [NoCall EXCEPT !.op = "newRow", !.t = t, !.r = NextId]
    /\ UNCHANGED <<tables, ds, env>>

\* DataTable.addRow(row) with a DataRow instance
AddRowInstance(t, r) ==
    /\ Allocated(r)
    /\ tables' = [tables EXCEPT ![t].rows = Append(@, r)]
    /\ last' = [NoCall EXCEPT !.op = "addRowInstance", !.t = t, !.r = r]
    /\ UNCHANGED <<heap, hist, ds, env>>

\* DataTable.addRow(values) with an array of positional values
AddRowArray(t, arr) ==
    /\ FreeIds # {}
    /\ heap' = [heap EXCEPT ![NextId] = RowFromArray(DataRow(t, Columns(t)), Columns(t), arr)]
    /\ hist' = [hist EXCEPT ![NextId] = NoHist]
    /\ tables' = [tables EXCEPT ![t].rows = Append(@, NextId)]
    /\ last' = [NoCall EXCEPT !.op = "addRowArray", !.t = t, !.r = NextId, !.arr = arr]
    /\ UNCHANGED <<ds, env>>

\* DataTable.addRow(values) with an object of column name -> value
AddRowObject(t, obj) ==
    /\ FreeIds # {}
    /\ heap' = [heap EXCEPT ![NextId] = RowFromObject(DataRow(t, Columns(t)), Columns(t), obj)]
    /\ hist' = [hist EXCEPT ![NextId] = NoHist]
    /\ tables' = [tables EXCEPT ![t].rows = Append(@, NextId)]
    /\ last' = [NoCall EXCEPT !.op = "addRowObject", !.t = t, !.r = NextId, !.obj = obj]
    /\ UNCHANGED <<ds, env>>

\* DataTable.removeRow(index) / DataRowCollection.removeAt.  The caller keeps
\* no reference to a removed row: a row object in no row collection is freed.
RemoveRow(t, index) ==
    LET after == [tables EXCEPT ![t].rows = RemoveAt(@, index)]
    IN  /\ tables' = after
        /\ heap' = [r \in RowIds |->
                      IF InRows(Rows(t), r) /\ \A u \in TableSlots : ~InRows(after[u].rows, r)
                      THEN NoRow ELSE heap[r]]
        /\ hist' = [r \in RowIds |-> IF heap'[r] = NoRow THEN NoHist ELSE hist[r]]
        /\ last' = [NoCall EXCEPT !.op = "removeRow", !.t = t, !.index = index]
        /\ UNCHANGED <<ds, env>>

\* DataRow.set(columnName, value) on a row object, in a collection or not
RowHist(h, row, name) ==
    [everSet |-> TRUE,
     firstPrev |-> IF name \in DOMAIN h.firstPrev THEN h.firstPrev
                   ELSE Put(h.firstPrev, name, Prop(row.values, name))]

Set(r, name, value) ==
    /\ Allocated(r)
    /\ LET cols == Columns(heap[r].table)
           outcomes == IF Contains(cols, name) /\ GetColumn(cols, name).dataType = "date"
                       THEN DateParse(value) ELSE {NaN}
       IN  \E p \in outcomes :
             LET res == RowSet(heap[r], cols, name, value, p)
             IN  /\ heap' = [heap EXCEPT ![r] = res.row]
                 /\ hist' = IF res.err = ""
                            THEN [hist EXCEPT ![r] = RowHist(@, heap[r], name)]
                            ELSE hist
                 /\ last' = [NoCall EXCEPT !.op = "set", !.err = res.err,
                                          !.t = heap[r].table, !.r = r,
                                          !.name = name, !.value = value,
                                          !.before = Prop(heap[r].values, name)]
                 /\ UNCHANGED <<tables, ds, env>>

\* ---------------------------------------------------------------- DataSet
DsHasTable(name) == \E i \in 1..Len(ds.tables) : tables[ds.tables[i]].tableName = name

\* table(name), for a name the dataset has
DsTable(name) ==
    ds.tables[CHOOSE i \in 1..Len(ds.tables) : tables[ds.tables[i]].tableName = name]

\* DataRelation constructor: the columns, and each column's table
DataRelation(relationName, parentColumn, childColumn) ==
    [relationName |-> relationName,
     parentColumn |-> parentColumn.columnName, childColumn |-> childColumn.columnName,
     parentTable |-> parentColumn.table, childTable |-> childColumn.table]

\* addTable(table) with a DataTable instance (addTable(name) makes the
\* instance first: a table with no column and no row)
AddTable(t) ==
    IF DsHasTable(tables[t].tableName)
    THEN /\ last' = [NoCall EXCEPT !.op = "addTable", !.err = "DuplicateName", !.t = t,
                                  !.name = tables[t].tableName]
         /\ UNCHANGED <<tables, heap, hist, ds, env>>
    ELSE /\ ds' = [ds EXCEPT !.tables = Append(@, t)]
         /\ last' = [NoCall EXCEPT !.op = "addTable", !.t = t, !.name = tables[t].tableName]
         /\ UNCHANGED <<tables, heap, hist, env>>

\* a filter that drops only the relations whose parent is the table
RelationsWithoutParent(rels, tableName) ==
    SelectSeq(rels, LAMBDA rel : tables[rel.parentTable].tableName # tableName)

\* removeTable(tableName): the relations of the table go with it
RelationsWithout(rels, tableName) ==
    SelectSeq(rels, LAMBDA rel :
        /\ tables[rel.parentTable].tableName # tableName
        /\ tables[rel.childTable].tableName # tableName)

RemoveTable(name) ==
    IF ~DsHasTable(name)
    THEN /\ last' = [NoCall EXCEPT !.op = "removeTable", !.err = "NotFound", !.name = name]
         /\ UNCHANGED <<tables, heap, hist, ds, env>>
    ELSE /\ ds' = [tables |-> SelectSeq(ds.tables, LAMBDA u : tables[u].tableName # name),
                   relations |-> RelationsWithout(ds.relations, name)]
         /\ last' = [NoCall EXCEPT !.op = "removeTable", !.t = DsTable(name), !.name = name,
                                  !.index = Len(ds.relations)]
         /\ UNCHANGED <<tables, heap, hist, env>>

\* addRelation(relationName, parentTable, childTable, parentColumn, childColumn)
\* by table name and column name: the error raised, or the relation made
ResolveRelation(relationName, parentTable, childTable, parentColumn, childColumn) ==
    IF ~DsHasTable(parentTable) THEN [err |-> "NotFound", rel |-> << >>]
    ELSE IF ~Contains(Columns(DsTable(parentTable)), parentColumn)
    THEN [err |-> "NotFound", rel |-> << >>]
    ELSE IF ~DsHasTable(childTable) THEN [err |-> "NotFound", rel |-> << >>]
    ELSE IF ~Contains(Columns(DsTable(childTable)), childColumn)
    THEN [err |-> "NotFound", rel |-> << >>]
    ELSE [err |-> "",
          rel |-> <<DataRelation(relationName,
                        GetColumn(Columns(DsTable(parentTable)), parentColumn),
                        GetColumn(Columns(DsTable(childTable)), childColumn))>>]

AddRelation(relationName, parentTable, childTable, parentColumn, childColumn) ==
    LET res == ResolveRelation(relationName, parentTable, childTable,
                               parentColumn, childColumn)
    IN  /\ ds' = [ds EXCEPT !.relations = @ \o res.rel]
        /\ last' = [NoCall EXCEPT !.op = "addRelation", !.err = res.err,
                                 !.name = relationName]
        /\ UNCHANGED <<tables, heap, hist, env>>

\* removeRelation(relationName): findIndex, then splice when found
FindIndex(rels, relationName) ==
    IF \E i \in 1..Len(rels) : rels[i].relationName = relationName
    THEN (CHOOSE i \in 1..Len(rels) :
            /\ rels[i].relationName = relationName
            /\ \A j \in 1..(i - 1) : rels[j].relationName # relationName) - 1
    ELSE -1

RelationsRemove(rels, relationName) ==
    LET index == FindIndex(rels, relationName)
    IN  IF index # -1
        THEN SubSeq(rels, 1, index) \o SubSeq(rels, index + 2, Len(rels))
        ELSE rels

RemoveRelation(relationName) ==
    /\ ds' = [ds EXCEPT !.relations = RelationsRemove(@, relationName)]
    /\ last' = [NoCall EXCEPT !.op = "removeRelation", !.name = relationName]
    /\ UNCHANGED <<tables, heap, hist, env>>

\* ---------------------------------------------------------------- queries
\* a === b.  Two Date objects are the same only when they are one object;
\* the dates compared here are always two objects.
StrictEquals(a, b) == a = b /\ a.t \notin {"nan", "date"}

\* The functions a caller passes as predicates, by what they do with their
\* argument x:  kind "get" is  x => x.get(name) === value,
\*              kind "prop" is x => x[name] === value.
\* The argument is a DataRow (arg = "row") or the _values object of a row
\* (arg = "values").  A _values object has no method get: calling it raises
\* a TypeError.  A DataRow has no property named after a column: reading it
\* gives undefined.
GetPred(name, value) == [kind |-> "get", name |-> name, value |-> value]
PropPred(name, value) == [kind |-> "prop", name |-> name, value |-> value]

ApplyPred(pred, arg, row, cols) ==
    CASE pred.kind = "get" /\ arg = "row" ->
            LET g == RowGet(row, cols, pred.name)
            IN  [err |-> g.err, value |-> g.err = "" /\ StrictEquals(g.value, pred.value)]
      [] pred.kind = "get" /\ arg = "values" ->
            [err |-> "TypeError", value |-> FALSE]
      [] pred.kind = "prop" /\ arg = "values" ->
            [err |-> "", value |-> StrictEquals(Prop(row.values, pred.name), pred.value)]
      [] pred.kind = "prop" /\ arg = "row" ->
            [err |-> "", value |-> StrictEquals(Undef, pred.value)]

\* rows.filter(row => f(...)): the rows f accepts, in order, or the error of
\* the first call of f that throws
FilterRows(rowSeq, pred, arg, cols) ==
    LET res(i) == ApplyPred(pred, arg, heap[rowSeq[i]], cols)
        failing == {i \in 1..Len(rowSeq) : res(i).err # ""}
    IN  IF failing # {}
        THEN [err |-> res(CHOOSE i \in failing : \A j \in failing : i <= j).err,
              rows |-> << >>]
        ELSE [err |-> "",
              rows |-> SelectSeq(rowSeq, LAMBDA r :
                          ApplyPred(pred, arg, heap[r], cols).value)]

\* the characters of the strings compared, in ascending order of code unit
CodeUnits ==
    Digits \o <<"D", "N", "a", "b", "d", "e", "f", "i", "l", "n", "r", "s", "t", "u">>

CodeUnit(c) == CHOOSE i \in 1..Len(CodeUnits) : CodeUnits[i] = c

\* the first position where two strings differ, or 0 when one is a prefix of
\* the other
FirstDifference(x, y) ==
    LET m == IF Len(x) < Len(y) THEN Len(x) ELSE Len(y)
        d == {i \in 1..m : x[i] # y[i]}
    IN  IF d = {} THEN 0 ELSE CHOOSE i \in d : \A j \in d : i <= j

\* x < y for two strings: by code unit, a proper prefix first
StringLess(x, y) ==
    LET i == FirstDifference(x, y)
    IN  IF i = 0 THEN Len(x) < Len(y) ELSE CodeUnit(x[i]) < CodeUnit(y[i])

\* a < b: two strings are compared as strings, any other pair as numbers,
\* and a comparison with NaN is false
Less(a, b) ==
    IF a.t = "string" /\ b.t = "string" THEN StringLess(a.s, b.s)
    ELSE LET x == NumberOf(a)
             y == NumberOf(b)
         IN  ~IsNaN(x) /\ ~IsNaN(y) /\ x.n < y.n

\* a <= b: not b < a, and false when a number is NaN
LessOrEqual(a, b) ==
    IF a.t = "string" /\ b.t = "string" THEN ~StringLess(b.s, a.s)
    ELSE LET x == NumberOf(a)
             y == NumberOf(b)
         IN  ~IsNaN(x) /\ ~IsNaN(y) /\ x.n <= y.n

\* array.includes(x): as ===, but NaN is found
Includes(arr, x) ==
    \E i \in 1..Len(arr) : StrictEquals(arr[i], x) \/ (IsNaN(arr[i]) /\ IsNaN(x))

\* The entries of a criteria object: a plain value, or an object with one
\* operator.  op is "eq" for a plain value, else the operator; v its operand
\* (for $in, vs is the array).
Plain(v) == [op |-> "eq", v |-> v, vs |-> << >>]
Operator(op, v) == [op |-> op, v |-> v, vs |-> << >>]
In(vs) == [op |-> "$in", v |-> Undef, vs |-> vs]

\* an object with several operators: the single-operator entries in the order
\* the object's keys were written
Operators(entries) == [op |-> "object", v |-> Undef, vs |-> entries]

\* the order in which findRows looks for the operators of an object
OperatorOrder == <<"$gt", "$gte", "$lt", "$lte", "$ne", "$in", "$contains">>

\* String(rowValue).includes(text)
StringIncludes(chars, text) ==
    \E i \in 0..(Len(chars) - Len(text)) : SubSeq(chars, i + 1, i + Len(text)) = text

\* a choice of the operator that is written first in the object
DecidingWritten(entries) == IF entries = << >> THEN << >> ELSE <<entries[1]>>

\* the operator of an object that decides: the first of OperatorOrder the
\* object has ('$gt' in value, then '$gte' in value, ...), or none
Deciding(entries) ==
    LET present == {i \in 1..Len(OperatorOrder) :
                       \E j \in 1..Len(entries) : entries[j].op = OperatorOrder[i]}
    IN  IF present = {} THEN << >>
        ELSE LET first == CHOOSE i \in present : \A k \in present : i <= k
             IN  <<entries[CHOOSE j \in 1..Len(entries) :
                              entries[j].op = OperatorOrder[first]]>>

\* one entry of findRows' criteria against the value of the row
EntryMatches(rowValue, entry) ==
    LET decided == IF entry.op = "object" THEN Deciding(entry.vs) ELSE <<entry>>
    IN  IF decided = << >> THEN FALSE
        ELSE LET e == decided[1]
             IN  CASE e.op = "$gt" -> Less(e.v, rowValue)
                   [] e.op = "$gte" -> LessOrEqual(e.v, rowValue)
                   [] e.op = "$lt" -> Less(rowValue, e.v)
                   [] e.op = "$lte" -> LessOrEqual(rowValue, e.v)
                   [] e.op = "$ne" -> ~StrictEquals(rowValue, e.v)
                   [] e.op = "$in" -> Includes(e.vs, rowValue)
                   [] e.op = "$contains" ->
                         StringIncludes(StringOf(rowValue).s, StringOf(e.v).s)
                   [] OTHER -> StrictEquals(rowValue, e.v)

\* a findRows whose entries are alternatives: one matching entry is enough
FindRowsAnyEntry(t, criteria) ==
    SelectSeq(Rows(t), LAMBDA r :
        \E key \in DOMAIN criteria :
            EntryMatches(Prop(heap[r].values, key), criteria[key]))

\* DataTable.findRows(criteria) with a criteria object: every entry matches
FindRowsByCriteria(t, criteria) ==
    SelectSeq(Rows(t), LAMBDA r :
        \A key \in DOMAIN criteria :
            EntryMatches(Prop(heap[r].values, key), criteria[key]))

\* DataTable.findOne(criteria) with a criteria object
FindOneByCriteria(t, criteria) ==
    LET results == FindRowsByCriteria(t, criteria)
    IN  IF Len(results) > 0 THEN <<results[1]>> ELSE << >>

FindRows(t, criteria) ==
    /\ last' = [NoCall EXCEPT !.op = "findRows", !.t = t, !.criteria = criteria,
                              !.out = FindRowsByCriteria(t, criteria)]
    /\ UNCHANGED <<tables, heap, hist, ds, env>>

FindOne(t, criteria) ==
    /\ last' = [NoCall EXCEPT !.op = "findOne", !.t = t, !.criteria = criteria,
                              !.out = FindOneByCriteria(t, criteria)]
    /\ UNCHANGED <<tables, heap, hist, ds, env>>

\* DataTable.findRows(criteria) with a function: criteria(row._values)
FindRowsByFunction(t, pred) == FilterRows(Rows(t), pred, "values", Columns(t))

\* DataTable.findOne(criteria) with a function: the first row found, or null
\* (no row)
FindOneByFunction(t, pred) ==
    LET results == FindRowsByFunction(t, pred)
    IN  [err |-> results.err,
         rows |-> IF Len(results.rows) > 0 THEN <<results.rows[1]>> ELSE << >>]

\* relations.find(rel => rel.relationName === relationName)
HasRelation(rels, relationName) ==
    \E i \in 1..Len(rels) : rels[i].relationName = relationName

FindRelation(rels, relationName) == rels[FindIndex(rels, relationName) + 1]

\* DataRelation.isValid(parentRow, childRow), for rows whose tables have the
\* relation's columns
IsValid(rel, parentRow, childRow) ==
    StrictEquals(Prop(parentRow.values, rel.parentColumn),
                 Prop(childRow.values, rel.childColumn))

\* DataSet.getChildRows(parentRow, relationName): the error raised, or the
\* rows returned
ChildRows(d, r, relationName) ==
    IF ~HasRelation(d.relations, relationName) THEN [err |-> "NotFound", rows |-> << >>]
    ELSE LET relation == FindRelation(d.relations, relationName)
             parentValue == RowGet(heap[r], Columns(heap[r].table), relation.parentColumn)
         IN  IF parentValue.err # "" THEN [err |-> parentValue.err, rows |-> << >>]
             ELSE FindRowsByFunction(relation.childTable,
                                     GetPred(relation.childColumn, parentValue.value))

GetChildRows(r, relationName) ==
    /\ Allocated(r)
    /\ LET res == ChildRows(ds, r, relationName)
       IN  last' = [NoCall EXCEPT !.op = "getChildRows", !.err = res.err, !.r = r,
                                 !.t = heap[r].table, !.name = relationName,
                                 !.out = res.rows]
    /\ UNCHANGED <<tables, heap, hist, ds, env>>

\* getChildRows on the dataset that DataSet.clone returned
CloneGetChildRows(r, relationName) ==
    /\ Allocated(r)
    /\ env.ds2.tables # << >>
    /\ LET res == ChildRows(env.ds2, r, relationName)
       IN  last' = [NoCall EXCEPT !.op = "cloneGetChildRows", !.err = res.err, !.r = r,
                                 !.t = heap[r].table, !.name = relationName,
                                 !.out = res.rows]
    /\ UNCHANGED <<tables, heap, hist, ds, env>>

\* DataSet.getParentRow(childRow, relationName): the error raised, or the row
\* returned (no row for null)
ParentRow(r, relationName) ==
    IF ~HasRelation(ds.relations, relationName) THEN [err |-> "NotFound", rows |-> << >>]
    ELSE LET relation == FindRelation(ds.relations, relationName)
             childValue == RowGet(heap[r], Columns(heap[r].table), relation.childColumn)
         IN  IF childValue.err # "" THEN [err |-> childValue.err, rows |-> << >>]
             ELSE FindOneByFunction(relation.parentTable,
                                    GetPred(relation.parentColumn, childValue.value))

GetParentRow(r, relationName) ==
    /\ Allocated(r)
    /\ LET res == ParentRow(r, relationName)
       IN  last' = [NoCall EXCEPT !.op = "getParentRow", !.err = res.err, !.r = r,
                                 !.t = heap[r].table, !.name = relationName,
                                 !.out = res.rows]
    /\ UNCHANGED <<tables, heap, hist, ds, env>>

\* ----------------------------------------------------------------- select
\* DataTable.select(filterExpression): the _values object of every row the
\* function accepts, the object itself.  The caller keeps the array returned:
\* each element is held as the row whose _values object it is, with the
\* content it had when select returned.
Selected(t, pred) ==
    LET found == FilterRows(Rows(t), pred, "values", Columns(t))
    IN  [err |-> found.err,
         objects |-> [i \in 1..Len(found.rows) |->
                        [ref |-> found.rows[i], seen |-> heap[found.rows[i]].values]]]

Select(t, pred) ==
    LET res == Selected(t, pred)
    IN  /\ env' = IF res.err = "" THEN [env EXCEPT !.held = res.objects] ELSE env
        /\ last' = [NoCall EXCEPT !.op = "select", !.err = res.err, !.t = t,
                                 !.name = pred.name, !.value = pred.value]
        /\ UNCHANGED <<tables, heap, hist, ds>>

\* the caller assigns a property of an object that select returned
AssignHeld(i, name, value) ==
    /\ i \in 1..Len(env.held)
    /\ heap' = [heap EXCEPT ![env.held[i].ref].values = Put(@, name, value)]
    /\ env' = [env EXCEPT !.held[i].seen = Put(@, name, value)]
    /\ last' = [NoCall EXCEPT !.op = "assignHeld", !.index = i, !.name = name,
                             !.value = value, !.r = env.held[i].ref]
    /\ UNCHANGED <<tables, hist, ds>>

\* ------------------------------------------------------------------ clone
\* Object.assign(target, source)
Assign(target, source) ==
    [k \in (DOMAIN target) \cup (DOMAIN source) |->
        IF k \in DOMAIN source THEN source[k] ELSE target[k]]

\* clone, per column: a new DataColumn with the constructor's four arguments,
\* then caption, expression, readOnly and unique assigned
CopyColumn(col) ==
    [DataColumn(col.columnName, col.dataType, col.allowNull, col.defaultValue)
        EXCEPT !.caption = col.caption, !.expression = col.expression,
               !.readOnly = col.readOnly, !.unique = col.unique]

\* clone, the columns: newTable.columns.add(newColumn) for each, in order
RECURSIVE CloneColumns(_, _, _)
CloneColumns(added, cols, dst) ==
    IF cols = << >> THEN added
    ELSE CloneColumns(ColumnsAdd(added, CopyColumn(Head(cols)), dst), Tail(cols), dst)

\* clone, per row: newTable.newRow(), the values and the original values
\* assigned over it, the state copied
CopyRow(row, dst, dstCols) ==
    [DataRow(dst, dstCols) EXCEPT
        !.values = Assign(@, row.values),
        !.originalValues = Assign(@, row.originalValues),
        !.rowState = row.rowState]

\* the free row identifiers in ascending order
FreeSeq ==
    [i \in 1..Cardinality(FreeIds) |->
        CHOOSE r \in FreeIds : Cardinality({q \in FreeIds : q < r}) = i - 1]

\* the row objects that clone() of the table src makes: the free row objects
\* after the first off ones
CloneRowIds(src, off) == SubSeq(FreeSeq, off + 1, off + Len(Rows(src)))

\* the table that clone() of the table src makes, as the table object dst
ClonedTable(src, dst, off) ==
    [tableName |-> tables[src].tableName,
     caseSensitive |-> tables[src].caseSensitive,
     columns |-> CloneColumns(<< >>, Columns(src), dst),
     rows |-> CloneRowIds(src, off)]

ClonedHeap(h, src, dst, off) ==
    LET dstCols == CloneColumns(<< >>, Columns(src), dst)
        ids == CloneRowIds(src, off)
    IN  [r \in RowIds |->
            IF InRows(ids, r)
            THEN CopyRow(heap[Rows(src)[CHOOSE i \in 1..Len(ids) : ids[i] = r]],
                         dst, dstCols)
            ELSE h[r]]

\* DataTable.clone(): the caller keeps the table returned
Clone(src, dst) ==
    /\ env.clone = NoTable
    /\ Cardinality(FreeIds) >= Len(Rows(src))
    /\ tables' = [tables EXCEPT ![dst] = ClonedTable(src, dst, 0)]
    /\ heap' = ClonedHeap(heap, src, dst, 0)
    /\ env' = [env EXCEPT !.clone = dst]
    /\ last' = [NoCall EXCEPT !.op = "clone", !.t = src]
    /\ UNCHANGED <<hist, ds>>

\* ---------------------------------------------------------- DataSet.clone
\* the table object that holds the clone of a table
CloneOf(t) == IF t = "t1" THEN "t3" ELSE "t4"

\* the number of rows in the first n tables of the dataset
RECURSIVE RowsBefore(_)
RowsBefore(n) == IF n = 0 THEN 0 ELSE RowsBefore(n - 1) + Len(Rows(ds.tables[n]))

\* the tables after newDataSet.addTable(table.clone()) for every table
TablesCloned ==
    [t \in TableSlots |->
        IF \E i \in 1..Len(ds.tables) : CloneOf(ds.tables[i]) = t
        THEN LET i == CHOOSE i \in 1..Len(ds.tables) : CloneOf(ds.tables[i]) = t
             IN  ClonedTable(ds.tables[i], t, RowsBefore(i - 1))
        ELSE tables[t]]

RECURSIVE HeapCloned(_, _)
HeapCloned(h, n) ==
    IF n = 0 THEN h
    ELSE ClonedHeap(HeapCloned(h, n - 1), ds.tables[n], CloneOf(ds.tables[n]),
                    RowsBefore(n - 1))

\* newDataSet.table(name) over the cloned tables
CloneHasTable(cloned, name) ==
    \E i \in 1..Len(ds.tables) : cloned[CloneOf(ds.tables[i])].tableName = name

CloneTable(cloned, name) ==
    CloneOf(ds.tables[CHOOSE i \in 1..Len(ds.tables) :
                         cloned[CloneOf(ds.tables[i])].tableName = name])

\* a relation of the clone that keeps the tables of the source relation
CloneRelationShared(cloned, relation) ==
    [err |-> "", rel |-> <<relation>>]

\* clone, per relation: the tables looked up by name in the new dataset, the
\* columns by name in them, and addRelation(name, parentColumn, childColumn)
\* with the column objects: a column that is not there is undefined, and the
\* DataRelation constructor reads its table
CloneRelation(cloned, relation) ==
    LET parentName == tables[relation.parentTable].tableName
        childName == tables[relation.childTable].tableName
    IN  IF ~CloneHasTable(cloned, parentName) \/ ~CloneHasTable(cloned, childName)
        THEN [err |-> "NotFound", rel |-> << >>]
        ELSE LET parentTable == CloneTable(cloned, parentName)
                 childTable == CloneTable(cloned, childName)
             IN  IF \/ ~Contains(cloned[parentTable].columns, relation.parentColumn)
                    \/ ~Contains(cloned[childTable].columns, relation.childColumn)
                 THEN [err |-> "TypeError", rel |-> << >>]
                 ELSE [err |-> "",
                       rel |-> <<DataRelation(relation.relationName,
                                    GetColumn(cloned[parentTable].columns,
                                              relation.parentColumn),
                                    GetColumn(cloned[childTable].columns,
                                              relation.childColumn))>>]

\* clone, the relations in order: the first error raised, or the relations made
RECURSIVE CloneRelations(_, _)
CloneRelations(cloned, rels) ==
    IF rels = << >> THEN [err |-> "", rels |-> << >>]
    ELSE LET first == CloneRelation(cloned, Head(rels))
             rest == CloneRelations(cloned, Tail(rels))
         IN  IF first.err # "" THEN [err |-> first.err, rels |-> << >>]
             ELSE IF rest.err # "" THEN rest
             ELSE [err |-> "", rels |-> first.rel \o rest.rels]

\* DataSet.clone(): the caller keeps the dataset returned; a clone that raises
\* leaves nothing behind
DsClone ==
    /\ env.ds2.tables = << >>
    /\ ds.tables # << >>
    /\ Cardinality(FreeIds) >= RowsBefore(Len(ds.tables))
    /\ LET res == CloneRelations(TablesCloned, ds.relations)
       IN  IF res.err # ""
           THEN /\ last' = [NoCall EXCEPT !.op = "dsClone", !.err = res.err]
                /\ UNCHANGED <<tables, heap, hist, ds, env>>
           ELSE /\ tables' = TablesCloned
                /\ heap' = HeapCloned(heap, Len(ds.tables))
                /\ env' = [env EXCEPT !.ds2 =
                              [tables |-> [i \in 1..Len(ds.tables) |-> CloneOf(ds.tables[i])],
                               relations |-> res.rels]]
                /\ last' = [NoCall EXCEPT !.op = "dsClone"]
                /\ UNCHANGED <<hist, ds>>

\* ------------------------------------------------------------------- sort
\* String.localeCompare on strings of digits and letters: the strings are
\* compared letter by letter without regard to case, digits before letters
\* and a proper prefix first; strings that differ in case only are decided
\* by the first such letter, lower case first.
Collation == Digits \o <<"a", "b", "d", "e", "f", "i", "l", "n", "r", "s", "t", "u">>

Fold(c) == IF c = "D" THEN "d" ELSE IF c = "N" THEN "n" ELSE c

CollationKey(c) == CHOOSE i \in 1..Len(Collation) : Collation[i] = Fold(c)

LocaleCompare(x, y) ==
    LET fx == [i \in 1..Len(x) |-> Fold(x[i])]
        fy == [i \in 1..Len(y) |-> Fold(y[i])]
        i == FirstDifference(fx, fy)
        j == FirstDifference(x, y)
    IN  IF i # 0 THEN (IF CollationKey(x[i]) < CollationKey(y[i]) THEN -1 ELSE 1)
        ELSE IF Len(x) # Len(y) THEN (IF Len(x) < Len(y) THEN -1 ELSE 1)
        ELSE IF j = 0 THEN 0
        ELSE IF Fold(x[j]) = x[j] THEN -1 ELSE 1

\* the sign of x - y for two numbers; NaN when one of them is NaN, which
\* Array.prototype.sort reads as 0
DifferenceSign(x, y) ==
    IF IsNaN(x) \/ IsNaN(y) THEN 0
    ELSE IF x.n < y.n THEN -1 ELSE IF x.n > y.n THEN 1 ELSE 0

\* new Date(value) - new Date(other) reads the time value of each: of a Date
\* its own, of a number the number; the values of a date column compared here
\* are Dates and numbers
TimeValue(v) == IF v.t \in {"date", "number", "boolean"} THEN Num(v.n) ELSE NaN

\* a comparator that negates the whole result for 'desc', nulls included
SortCompareNegatingAll(valueA, valueB, dataType, order) ==
    LET c == IF StrictEquals(valueA, valueB) THEN 0
             ELSE IF valueA \in {Null, Undef} THEN 1
             ELSE IF valueB \in {Null, Undef} THEN -1
             ELSE IF dataType = "number"
                  THEN DifferenceSign(NumberOf(valueA), NumberOf(valueB))
                  ELSE LocaleCompare(StringOf(valueA).s, StringOf(valueB).s)
    IN  IF order = "asc" THEN c ELSE -c

\* sort(columnName, order): the comparator, on the values of two rows
SortCompare(valueA, valueB, dataType, order) ==
    IF StrictEquals(valueA, valueB) THEN 0
    ELSE IF valueA \in {Null, Undef} THEN 1
    ELSE IF valueB \in {Null, Undef} THEN -1
    ELSE LET comparison ==
                 CASE dataType = "number" ->
                        DifferenceSign(NumberOf(valueA), NumberOf(valueB))
                   [] dataType = "date" ->
                        DifferenceSign(TimeValue(valueA), TimeValue(valueB))
                   [] OTHER -> LocaleCompare(StringOf(valueA).s, StringOf(valueB).s)
         IN  IF order = "asc" THEN comparison ELSE -comparison

\* the arrangements of a sequence: result[i] = seq[f[i]]
Arrangements(n) ==
    {f \in [1..n -> 1..n] : \A i \in 1..n : \A j \in 1..n : f[i] = f[j] => i = j}

Arrange(seq, f) == [i \in 1..Len(seq) |-> seq[f[i]]]

\* Array.prototype.sort(comparator), where cmp[i][j] is the comparator on the
\* elements at i and j.  With a consistent comparator the sort is stable and
\* has one result; with any other comparator the order is left to the engine.
Consistent(n, cmp) ==
    /\ \A i \in 1..n : cmp[i][i] = 0
    /\ \A i \in 1..n : \A j \in 1..n : cmp[i][j] = -cmp[j][i]
    /\ \A i \in 1..n : \A j \in 1..n : \A k \in 1..n :
          (cmp[i][j] <= 0 /\ cmp[j][k] <= 0) => cmp[i][k] <= 0

StableSorted(n, cmp, f) ==
    \A i \in 1..n : \A j \in 1..n :
        i < j => (cmp[f[i]][f[j]] < 0 \/ (cmp[f[i]][f[j]] = 0 /\ f[i] < f[j]))

ArraySort(seq, cmp) ==
    LET n == Len(seq)
    IN  IF Consistent(n, cmp)
        THEN {Arrange(seq, f) : f \in {g \in Arrangements(n) : StableSorted(n, cmp, g)}}
        ELSE {Arrange(seq, f) : f \in Arrangements(n)}

\* the results of sorting the rows of a table whose column name has the type
\* dataType
SortedRows(rowSeq, cols, name, order) ==
    LET dataType == GetColumn(cols, name).dataType
        cmp == [i \in 1..Len(rowSeq) |-> [j \in 1..Len(rowSeq) |->
                   SortCompare(Prop(heap[rowSeq[i]].values, name),
                               Prop(heap[rowSeq[j]].values, name), dataType, order)]]
    IN  ArraySort(rowSeq, cmp)

\* DataTable.sort(columnName, order).  The comparator reads a.item(columnName),
\* which raises NotFound for a name that is no column; the comparator is
\* called when the table has two rows or more.
Sort(t, name, order) ==
    IF ~Contains(Columns(t), name)
    THEN /\ last' = [NoCall EXCEPT !.op = "sort", !.t = t, !.name = name,
                                   !.order = order, !.out = Rows(t),
                                   !.err = IF Len(Rows(t)) >= 2 THEN "NotFound" ELSE ""]
         /\ UNCHANGED <<tables, heap, hist, ds, env>>
    ELSE \E sorted \in SortedRows(Rows(t), Columns(t), name, order) :
            /\ tables' = [tables EXCEPT ![t].rows = sorted]
            /\ last' = [NoCall EXCEPT !.op = "sort", !.t = t, !.name = name,
                                      !.order = order, !.out = Rows(t)]
            /\ UNCHANGED <<heap, hist, ds, env>>

\* ----------------------------------------------------------------- schema
\* the names of the columns in cols that other does not have, in order
NamesNotIn(cols, other) ==
    LET kept == SelectSeq(cols, LAMBDA c : ~Contains(other, c.columnName))
    IN  [i \in 1..Len(kept) |-> kept[i].columnName]

\* compareSchema(otherTable): missingColumns are the columns of this table
\* that the other lacks, extraColumns the columns of the other that this table
\* lacks; the mismatches are over the columns both have
CompareSchema(cols, otherCols) ==
    LET common == SelectSeq(cols, LAMBDA c : Contains(otherCols, c.columnName))
        typed == SelectSeq(common, LAMBDA c :
                     c.dataType # GetColumn(otherCols, c.columnName).dataType)
        nulled == SelectSeq(common, LAMBDA c :
                     c.allowNull # GetColumn(otherCols, c.columnName).allowNull)
    IN  [missingColumns |-> NamesNotIn(cols, otherCols),
         extraColumns |-> NamesNotIn(otherCols, cols),
         typeMismatches |->
            [i \in 1..Len(typed) |->
                [column |-> typed[i].columnName, thisType |-> typed[i].dataType,
                 otherType |-> GetColumn(otherCols, typed[i].columnName).dataType]],
         nullabilityDifferences |->
            [i \in 1..Len(nulled) |->
                [column |-> nulled[i].columnName, thisAllowNull |-> nulled[i].allowNull,
                 otherAllowNull |-> GetColumn(otherCols, nulled[i].columnName).allowNull]]]

\* updateSchema, "add missing columns": for every name of missingColumns the
\* source column is looked up (undefined when the source has none: reading
\* its dataType raises), a column of that name and type is added to this
\* table, and the other attributes are assigned.  st is the table so far:
\* [err, cols, heap, report].
RECURSIVE AddMissingColumns(_, _, _, _, _)
AddMissingColumns(st, names, sourceCols, rowSeq, t) ==
    IF names = << >> \/ st.err # "" THEN st
    ELSE LET columnName == Head(names)
         IN  IF ~Contains(sourceCols, columnName) THEN [st EXCEPT !.err = "TypeError"]
             ELSE IF Contains(st.cols, columnName) THEN [st EXCEPT !.err = "DuplicateName"]
             ELSE LET sourceColumn == GetColumn(sourceCols, columnName)
                      made == DataColumn(columnName, sourceColumn.dataType, TRUE, Null)
                      newColumn == [made EXCEPT
                                       !.allowNull = sourceColumn.allowNull,
                                       !.defaultValue = sourceColumn.defaultValue,
                                       !.expression = sourceColumn.expression,
                                       !.readOnly = sourceColumn.readOnly,
                                       !.unique = sourceColumn.unique,
                                       !.caption = sourceColumn.caption]
                  IN  AddMissingColumns(
                          [st EXCEPT !.cols = ColumnsAdd(@, newColumn, t),
                                     !.heap = BackfillRows(@, rowSeq, made),
                                     !.report.addedColumns = Append(@, columnName)],
                          Tail(names), sourceCols, rowSeq, t)

\* updateSchema, "remove extra columns": this.removeColumn(name) for every
\* name of extraColumns
RECURSIVE RemoveExtraColumns(_, _, _)
RemoveExtraColumns(st, names, rowSeq) ==
    IF names = << >> \/ st.err # "" THEN st
    ELSE LET columnName == Head(names)
         IN  IF ~Contains(st.cols, columnName) THEN [st EXCEPT !.err = "NotFound"]
             ELSE RemoveExtraColumns(
                      [st EXCEPT !.cols = ColumnsRemove(@, columnName),
                                 !.heap = StripRows(@, rowSeq, columnName),
                                 !.report.removedColumns = Append(@, columnName)],
                      Tail(names), rowSeq)

\* updateSchema, "update column definitions": the type and the nullability of
\* the source for every mismatch found by compareSchema
Normalized(st, differences, sourceCols) ==
    LET typed == {differences.typeMismatches[i].column :
                     i \in 1..Len(differences.typeMismatches)}
        nulled == {differences.nullabilityDifferences[i].column :
                      i \in 1..Len(differences.nullabilityDifferences)}
        shown(b) == IF b THEN "true" ELSE "false"
        change(kind, m, from, to) ==
            [column |-> m.column, change |-> kind, from |-> from, to |-> to]
        normal(c) ==
            [c EXCEPT
                !.dataType = IF c.columnName \in typed
                             THEN GetColumn(sourceCols, c.columnName).dataType ELSE @,
                !.allowNull = IF c.columnName \in nulled
                              THEN GetColumn(sourceCols, c.columnName).allowNull ELSE @]
    IN  IF st.err # "" THEN st
        ELSE [st EXCEPT
                !.cols = [i \in 1..Len(st.cols) |-> normal(st.cols[i])],
                !.report.modifiedColumns =
                    [i \in 1..Len(differences.typeMismatches) |->
                        LET m == differences.typeMismatches[i]
                        IN  change("dataType", m, m.thisType, m.otherType)]
                    \o [i \in 1..Len(differences.nullabilityDifferences) |->
                           LET m == differences.nullabilityDifferences[i]
                           IN  change("allowNull", m, shown(m.thisAllowNull),
                                      shown(m.otherAllowNull))]]

\* updateSchema(sourceTable, addMissingColumns, removeExtraColumns): what the
\* table is when it returns or raises
UpdatedSchema(t, s, addMissingColumns, removeExtraColumns) ==
    LET differences == CompareSchema(Columns(t), Columns(s))
        start == [err |-> "", cols |-> Columns(t), heap |-> heap, report |-> NoReport]
        added == IF addMissingColumns
                 THEN AddMissingColumns(start, differences.missingColumns, Columns(s),
                                        Rows(t), t)
                 ELSE start
        removed == IF removeExtraColumns
                   THEN RemoveExtraColumns(added, differences.extraColumns, Rows(t))
                   ELSE added
    IN  Normalized(removed, differences, Columns(s))

UpdateSchema(t, s, addMissingColumns, removeExtraColumns) ==
    LET res == UpdatedSchema(t, s, addMissingColumns, removeExtraColumns)
    IN  /\ tables' = [tables EXCEPT ![t].columns = res.cols]
        /\ heap' = res.heap
        /\ last' = [NoCall EXCEPT !.op = "updateSchema", !.err = res.err, !.t = t,
                                 !.name = tables[s].tableName,
                                 !.index = (IF addMissingColumns THEN 2 ELSE 0)
                                           + (IF removeExtraColumns THEN 1 ELSE 0),
                                 !.report = res.report]
        /\ UNCHANGED <<hist, ds, env>>

\* the caller assigns table.caseSensitive
SetCaseSensitive(t, flag) ==
    /\ tables' = [tables EXCEPT ![t].caseSensitive = flag]
    /\ last' = [NoCall EXCEPT !.op = "setCaseSensitive", !.t = t]
    /\ UNCHANGED <<heap, hist, ds, env>>

\* exportSchema, per column
ColumnDef(column) ==
    [name |-> column.columnName, dataType |-> column.dataType,
     allowNull |-> column.allowNull, defaultValue |-> column.defaultValue,
     expression |-> column.expression, readOnly |-> column.readOnly,
     unique |-> column.unique, ordinal |-> column.ordinal, caption |-> column.caption]

\* exportSchema(): the schema object
ExportedSchema(t) ==
    LET cols == Columns(t)
        keys == SelectSeq(cols, LAMBDA c : c.isPrimaryKey)
        uniques == SelectSeq(cols, LAMBDA c : c.unique /\ ~c.isPrimaryKey)
    IN  [tableName |-> tables[t].tableName,
         caseSensitive |-> tables[t].caseSensitive,
         columns |-> [i \in 1..Len(cols) |-> ColumnDef(cols[i])],
         primaryKey |-> IF keys = << >> THEN NoKey
                        ELSE [isNull |-> FALSE,
                              names |-> [i \in 1..Len(keys) |-> keys[i].columnName]],
         uniqueConstraints |->
            [i \in 1..Len(uniques) |->
                [columns |-> <<uniques[i].columnName>>,
                 name |-> <<"UQ", tables[t].tableName, uniques[i].columnName>>]]]

\* the caller keeps the schema returned
ExportSchema(t) ==
    /\ env' = [env EXCEPT !.schema = ExportedSchema(t)]
    /\ last' = [NoCall EXCEPT !.op = "exportSchema", !.t = t]
    /\ UNCHANGED <<tables, heap, hist, ds>>

\* importSchema, per column definition: addColumn(name, dataType), the
\* attributes assigned (an empty caption falls back to the name), and the
\* primary-key columns made non-nullable and unique
ImportedColumn(schema, columnDef) ==
    LET isKey == ~schema.primaryKey.isNull
                 /\ \E i \in 1..Len(schema.primaryKey.names) :
                        schema.primaryKey.names[i] = columnDef.name
    IN  [DataColumn(columnDef.name, columnDef.dataType, TRUE, Null) EXCEPT
            !.allowNull = IF isKey THEN FALSE ELSE columnDef.allowNull,
            !.defaultValue = columnDef.defaultValue,
            !.expression = columnDef.expression,
            !.readOnly = columnDef.readOnly,
            !.unique = IF isKey THEN TRUE ELSE columnDef.unique,
            !.caption = IF columnDef.caption = "" THEN columnDef.name
                        ELSE columnDef.caption,
            !.isPrimaryKey = isKey]

RECURSIVE ImportedColumns(_, _, _, _)
ImportedColumns(st, schema, columnDefs, dst) ==
    IF columnDefs = << >> \/ st.err # "" THEN st
    ELSE IF Contains(st.cols, Head(columnDefs).name)
    THEN [st EXCEPT !.err = "DuplicateName"]
    ELSE ImportedColumns(
             [st EXCEPT !.cols = ColumnsAdd(@, ImportedColumn(schema, Head(columnDefs)), dst)],
             schema, Tail(columnDefs), dst)

\* DataTable.importSchema(schema) with the schema the caller keeps: the table
\* made, as the table object dst
ImportSchema(dst) ==
    LET res == ImportedColumns([err |-> "", cols |-> << >>], env.schema,
                               env.schema.columns, dst)
    IN  /\ env.schema # NoSchema
        /\ tables' = IF res.err # "" THEN tables
                     ELSE [tables EXCEPT ![dst] =
                             [tableName |-> env.schema.tableName,
                              caseSensitive |-> env.schema.caseSensitive,
                              columns |-> res.cols, rows |-> << >>]]
        /\ last' = [NoCall EXCEPT !.op = "importSchema", !.err = res.err, !.t = dst]
        /\ UNCHANGED <<heap, hist, ds, env>>

\* --------------------------------------------------------------- DataView
\* constructor with the table alone: no filter, no sort, order 'asc'
NewView(t) ==
    /\ env.view.table = NoTable
    /\ env' = [env EXCEPT !.view = [NoView EXCEPT !.table = t]]
    /\ last' = [NoCall EXCEPT !.op = "newView", !.t = t]
    /\ UNCHANGED <<tables, heap, hist, ds>>

SetFilter(filter) ==
    /\ env.view.table # NoTable
    /\ env' = [env EXCEPT !.view.filter = filter]
    /\ last' = [NoCall EXCEPT !.op = "setFilter", !.t = env.view.table]
    /\ UNCHANGED <<tables, heap, hist, ds>>

SetSort(sort, order) ==
    /\ env.view.table # NoTable
    /\ env' = [env EXCEPT !.view.sort = sort, !.view.order = order]
    /\ last' = [NoCall EXCEPT !.op = "setSort", !.t = env.view.table,
                             !.name = sort, !.order = order]
    /\ UNCHANGED <<tables, heap, hist, ds>>

\* getRows, the filter: the table's rows, the rows the function accepts when
\* called with the row, or findRows(criteria)
ViewFiltered(view) ==
    LET t == view.table
    IN  CASE view.filter.kind = "null" -> [err |-> "", rows |-> Rows(t)]
          [] view.filter.kind = "function" ->
                FilterRows(Rows(t), view.filter.pred, "row", Columns(t))
          [] view.filter.kind = "criteria" ->
                [err |-> "", rows |-> FindRowsByCriteria(t, view.filter.criteria)]

\* _cloneTableWithRows, per row: a new row of the temporary table (the clone
\* of the view's table, cleared), and set(name, row.get(name)) for every
\* column of the view's table in order; the error of the first set that
\* raises.  The view specifications have no date column.
RECURSIVE SetAll(_, _, _, _)
SetAll(newRow, tempCols, row, cols) ==
    IF cols = << >> THEN [err |-> "", row |-> newRow]
    ELSE LET name == Head(cols).columnName
             res == RowSet(newRow, tempCols, name, Prop(row.values, name), NaN)
         IN  IF res.err # "" THEN res
             ELSE SetAll(res.row, tempCols, row, Tail(cols))

TempRow(row, cols) ==
    LET tempCols == CloneColumns(<< >>, cols, "temp")
    IN  SetAll(DataRow("temp", tempCols), tempCols, row, cols)

\* _cloneTableWithRows: the rows of the temporary table, or the first error
CloneTableWithRows(rowSeq, cols) ==
    LET made == [i \in 1..Len(rowSeq) |-> TempRow(heap[rowSeq[i]], cols)]
        failing == {i \in 1..Len(rowSeq) : made[i].err # ""}
    IN  IF failing # {}
        THEN [err |-> made[CHOOSE i \in failing : \A j \in failing : i <= j].err,
              rows |-> << >>]
        ELSE [err |-> "", rows |-> [i \in 1..Len(rowSeq) |-> made[i].row]]

\* sortedTable.sort(name, order) on the rows of the temporary table
TempSorted(rowRecs, cols, name, order) ==
    IF ~Contains(cols, name)
    THEN {[err |-> IF Len(rowRecs) >= 2 THEN "NotFound" ELSE "", rows |-> rowRecs]}
    ELSE LET dataType == GetColumn(cols, name).dataType
             cmp == [i \in 1..Len(rowRecs) |-> [j \in 1..Len(rowRecs) |->
                        SortCompare(Prop(rowRecs[i].values, name),
                                    Prop(rowRecs[j].values, name), dataType, order)]]
         IN  {[err |-> "", rows |-> sorted] : sorted \in ArraySort(rowRecs, cmp)}

\* a row returned by getRows: ref is the row object of the table (0 for a row
\* of the temporary table), row its content
Returned(rowSeq) == [i \in 1..Len(rowSeq) |-> [ref |-> rowSeq[i], row |-> heap[rowSeq[i]]]]

Fresh(rowRecs) == [i \in 1..Len(rowRecs) |-> [ref |-> 0, row |-> rowRecs[i]]]

\* getRows(): the results it can give (one, unless the sort comparator is
\* inconsistent)
ViewRows(view) ==
    LET filtered == ViewFiltered(view)
        cols == Columns(view.table)
    IN  IF filtered.err # "" THEN {[err |-> filtered.err, rows |-> << >>]}
        ELSE IF view.sort = "" THEN {[err |-> "", rows |-> Returned(filtered.rows)]}
        ELSE LET temp == CloneTableWithRows(filtered.rows, cols)
             IN  IF temp.err # "" THEN {[err |-> temp.err, rows |-> << >>]}
                 ELSE {[err |-> res.err,
                        rows |-> IF res.err = "" THEN Fresh(res.rows) ELSE << >>] :
                          res \in TempSorted(temp.rows, cols, view.sort, view.order)}

\* a getRows that sorts the row collection of the view's table
GetRowsSortingInPlace ==
    /\ env.view.table # NoTable
    /\ \E res \in ViewRows(env.view) :
          /\ last' = [NoCall EXCEPT !.op = "getRows", !.err = res.err,
                                   !.t = env.view.table, !.rows = res.rows]
          /\ tables' = IF env.view.sort # "" /\ Contains(Columns(env.view.table), env.view.sort)
                       THEN [tables EXCEPT ![env.view.table].rows =
                               CHOOSE sorted \in SortedRows(@, Columns(env.view.table),
                                                            env.view.sort, env.view.order) :
                                   TRUE]
                       ELSE tables
    /\ UNCHANGED <<heap, hist, ds, env>>

GetRows ==
    /\ env.view.table # NoTable
    /\ \E res \in ViewRows(env.view) :
          last' = [NoCall EXCEPT !.op = "getRows", !.err = res.err,
                                !.t = env.view.table, !.rows = res.rows]
    /\ UNCHANGED <<tables, heap, hist, ds, env>>

\* --------------------------------------------------------- specification
AllocCount == Cardinality({r \in RowIds : Allocated(r)})

\* one table: its columns and its rows
Next ==
    \/ \E c \in TableColumns : AddColumn("t1", c)
    \/ \E n \in ColNames : RemoveColumn("t1", n)
    \/ AllocCount < MaxRows /\ NewRow("t1")
    \/ \E r \in RowIds : Len(Rows("t1")) < MaxRows /\ AddRowInstance("t1", r)
    \/ \E a \in ArrayInputs :
          AllocCount < MaxRows /\ Len(Rows("t1")) < MaxRows /\ AddRowArray("t1", a)
    \/ \E o \in ObjectInputs :
          AllocCount < MaxRows /\ Len(Rows("t1")) < MaxRows /\ AddRowObject("t1", o)
    \/ \E i \in -1..MaxRows : RemoveRow("t1", i)

Spec == Init /\ [][Next]_vars

\* the column collection alone: columns added and removed in any order
WideNames == {"a", "b", "c", "d"}
WideColumns ==
    {DataColumn(n, "null", TRUE, Null) : n \in WideNames}
        \cup {DataColumn(n, "number", FALSE, Num(7)) : n \in WideNames}

NextCols ==
    \/ \E c \in WideColumns : AddColumn("t1", c)
    \/ \E n \in WideNames : RemoveColumn("t1", n)

SpecCols == Init /\ [][NextCols]_vars

\* typed writes: one table with one column of any type, rows made by newRow
\* and added by addRow, values written by set; n bounds the rows
NextSet(n) ==
    \/ \E c \in TypedColumns : AddColumn("t1", c)
    \/ AllocCount < n /\ NewRow("t1")
    \/ \E r \in RowIds : Len(Rows("t1")) < n /\ AddRowInstance("t1", r)
    \/ \E r \in RowIds, k \in {"a", "z"}, v \in SetValues : Set(r, k, v)

SpecSet == Init /\ [][NextSet(MaxSetRows)]_vars

SpecSetRows == Init /\ [][NextSet(MaxRows)]_vars

\* change tracking: one column that is added, removed and added again, with
\* another type or default, under rows that set has written
TrackColumns ==
    {DataColumn("a", "null", TRUE, Null), DataColumn("a", "number", FALSE, Num(7))}
TrackValues == {Null, Str(<<"4", "2">>), Num(7)}

NextTrack ==
    \/ \E c \in TrackColumns : AddColumn("t1", c)
    \/ RemoveColumn("t1", "a")
    \/ AllocCount < MaxSetRows /\ NewRow("t1")
    \/ \E r \in RowIds : Len(Rows("t1")) < MaxSetRows /\ AddRowInstance("t1", r)
    \/ \E i \in 0..MaxSetRows : RemoveRow("t1", i)
    \/ \E r \in RowIds, v \in TrackValues : Set(r, "a", v)

SpecTrack == Init /\ [][NextTrack]_vars

\* a dataset of two tables, the rows of the parent table and the relations
DsColumns == {DataColumn("a", "null", TRUE, Null)}
DsObjects == {[n \in {"a"} |-> Num(7)]}
RelNames == {"r1", "r2"}

NextDS ==
    \/ \E t \in TableIds, c \in DsColumns : AddColumn(t, c)
    \/ \E o \in DsObjects :
          AllocCount < MaxDsRows /\ Len(Rows("t1")) < MaxDsRows /\ AddRowObject("t1", o)
    \/ \E t \in TableIds, i \in IndexInputs : RemoveRow(t, i)
    \/ \E t \in TableIds : AddTable(t)
    \/ \E rn \in RelNames, pc \in ColNames :
          Len(ds.relations) < MaxRels /\ AddRelation(rn, "P", "C", pc, "a")
    \/ \E rn \in RelNames \cup {"r3"} : RemoveRelation(rn)

SpecDS == Init /\ [][NextDS]_vars

\* the dataset alone: tables added and removed, relations in both directions
\* added by table name and column name and removed
DsTableNames == {"P", "C"}

NextRel ==
    \/ \E t \in TableIds, c \in DsColumns : AddColumn(t, c)
    \/ \E t \in TableIds : AddTable(t)
    \/ \E n \in DsTableNames \cup {"X"} : RemoveTable(n)
    \/ \E rn \in RelNames, pt \in DsTableNames, ct \in DsTableNames, pc \in ColNames :
          Len(ds.relations) < MaxRels /\ AddRelation(rn, pt, ct, pc, "a")
    \/ \E rn \in RelNames \cup {"r3"} : RemoveRelation(rn)

SpecRel == Init /\ [][NextRel]_vars

\* navigation: a relation P.a -> C.a, rows in both tables, and the lookups
NavObjects == {[n \in {"a"} |-> Num(7)], [n \in {"a"} |-> Num(8)]}

NextNav ==
    \/ \E t \in TableIds, c \in DsColumns : AddColumn(t, c)
    \/ \E t \in TableIds : AddTable(t)
    \/ \E t \in TableIds, o \in NavObjects :
          AllocCount < MaxDsRows /\ Len(Rows(t)) < MaxDsRows /\ AddRowObject(t, o)
    \/ Len(ds.relations) < MaxRels /\ AddRelation("r1", "P", "C", "a", "a")
    \/ \E r \in RowIds, rn \in {"r1", "r3"} : GetChildRows(r, rn)
    \/ \E r \in RowIds, rn \in {"r1", "r3"} : GetParentRow(r, rn)

SpecNav == Init /\ [][NextNav]_vars

\* navigation through a relation P.a -> C.a whose columns are removed from
\* their tables and added again
NextOrphan ==
    \/ \E t \in TableIds, c \in DsColumns : AddColumn(t, c)
    \/ \E t \in TableIds : RemoveColumn(t, "a")
    \/ \E t \in TableIds : AddTable(t)
    \/ \E t \in TableIds :
          /\ AllocCount < MaxDsRows /\ Len(Rows(t)) < MaxDsRows
          /\ AddRowObject(t, [n \in {"a"} |-> Num(7)])
    \/ Len(ds.relations) < MaxRels /\ AddRelation("r1", "P", "C", "a", "a")
    \/ \E r \in RowIds : GetChildRows(r, "r1")
    \/ \E r \in RowIds : GetParentRow(r, "r1")

SpecOrphan == Init /\ [][NextOrphan]_vars

\* search: rows with an age (column a) and a name (column b), looked up by
\* criteria objects of one or two entries
FindObjects ==
    {[n \in ColNames |-> IF n = "a" THEN x ELSE y] :
        x \in {Num(25), Num(30), Null}, y \in {Str(<<"a">>), Str(<<"b">>)}}
AgeEntries ==
    {Plain(Num(30)), Plain(Null), Operator("$gt", Num(26)), Operator("$gte", Num(30)),
     Operator("$lt", Num(26)), Operator("$lte", Num(25)), Operator("$ne", Num(30)),
     In(<<Num(25), Num(7)>>)}
NameEntries == {Plain(Str(<<"a">>)), Operator("$gt", Str(<<"a">>))}
FindCriteria ==
    {[k \in {"a"} |-> e] : e \in AgeEntries}
        \cup {[k \in ColNames |-> IF k = "a" THEN e ELSE f] :
                 e \in {Plain(Num(30)), Operator("$lt", Num(26))}, f \in NameEntries}
        \cup {EmptyMap, [k \in {"z"} |-> Plain(Undef)], [k \in {"z"} |-> Plain(Num(7))]}
FindColumns ==
    {DataColumn("a", "number", TRUE, Null), DataColumn("b", "string", TRUE, Null)}

NextFind ==
    \/ \E c \in FindColumns : AddColumn("t1", c)
    \/ \E o \in FindObjects :
          AllocCount < MaxRows /\ Len(Rows("t1")) < MaxRows /\ AddRowObject("t1", o)
    \/ \E c \in FindCriteria : FindRows("t1", c)
    \/ \E c \in FindCriteria : FindOne("t1", c)

SpecFind == Init /\ [][NextFind]_vars

\* a table with a number column and criteria whose entry for it is an object
\* with one or several operators, written in either order
OperatorObjects ==
    {Operators(<<Operator("$gt", Num(26)), Operator("$lt", Num(28))>>),
     Operators(<<Operator("$lt", Num(28)), Operator("$gt", Num(26))>>),
     Operators(<<Operator("$gte", Num(30)), Operator("$lte", Num(25))>>),
     Operators(<<In(<<Num(30)>>), Operator("$ne", Num(30))>>),
     Operators(<<Operator("$contains", Str(<<"3">>)), In(<<Num(25)>>)>>),
     Operators(<<Operator("$contains", Str(<<"3">>)), Operator("$lte", Num(25))>>),
     Operators(<<Operator("$contains", Str(<<"u">>))>>),
     Operators(<< >>)}
OperatorCriteria == {[k \in {"a"} |-> e] : e \in OperatorObjects}
OperatorRows ==
    {[n \in {"a"} |-> x] : x \in {Num(25), Num(30), Null}}

NextOperators ==
    \/ AddColumn("t1", DataColumn("a", "number", TRUE, Null))
    \/ \E o \in OperatorRows :
          AllocCount < MaxRows /\ Len(Rows("t1")) < MaxRows /\ AddRowObject("t1", o)
    \/ \E c \in OperatorCriteria : FindRows("t1", c)
    \/ \E c \in OperatorCriteria : FindOne("t1", c)

SpecOperators == Init /\ [][NextOperators]_vars

\* sorting: one column, of type number or string or untyped, over rows that
\* hold numbers and null
SortColumns == {DataColumn("a", dt, TRUE, Null) : dt \in {"number", "string", "null"}}
SortObjects == {[n \in {"a"} |-> v] : v \in {Num(5), Num(25), Num(30), Null}}

NextSort ==
    \/ \E c \in SortColumns : AddColumn("t1", c)
    \/ \E o \in SortObjects :
          AllocCount < MaxDsRows /\ Len(Rows("t1")) < MaxDsRows /\ AddRowObject("t1", o)
    \/ \E n \in {"a", "z"}, o \in {"asc", "desc"} : Sort("t1", n, o)

SpecSort == Init /\ [][NextSort]_vars

\* a table and its clone: columns with assigned caption and unique flag, rows
\* made by newRow and addRow(row) or by addRow(values), set on both sides
CloneColumnInputs ==
    {[DataColumn("a", "number", TRUE, Null) EXCEPT !.caption = "A", !.unique = TRUE]}
CloneObjects == {[n \in {"a"} |-> Num(7)]}

NextClone ==
    \/ \E c \in CloneColumnInputs : env.clone = NoTable /\ AddColumn("t1", c)
    \/ env.clone # NoTable /\ AddColumn(env.clone, DataColumn("b", "null", TRUE, Null))
    \/ env.clone # NoTable /\ RemoveColumn("t1", "a")
    \/ env.clone = NoTable /\ AllocCount < MaxRows /\ NewRow("t1")
    \/ \E r \in RowIds :
          /\ Allocated(r) /\ heap[r].table = "t1" /\ ~InRows(Rows("t1"), r)
          /\ AddRowInstance("t1", r)
    \/ \E o \in CloneObjects :
          env.clone = NoTable /\ AllocCount < MaxRows /\ AddRowObject("t1", o)
    \/ env.clone # NoTable /\ Rows(env.clone) # << >> /\ RemoveRow(env.clone, 0)
    \/ \E r \in RowIds : Set(r, "a", Num(42))
    \/ Clone("t1", "t3")

SpecClone == Init /\ [][NextClone]_vars

\* a table with a number column, rows added, removed and set, and one view of
\* it whose filter and sort change
ViewColumn == DataColumn("a", "number", TRUE, Null)
ViewObjects == {[n \in {"a"} |-> v] : v \in {Num(5), Num(25), Null}}
ViewFilters ==
    {NoFilter,
     FunctionFilter(GetPred("a", Num(5))), FunctionFilter(PropPred("a", Num(5))),
     CriteriaFilter([k \in {"a"} |-> Operator("$ne", Num(5))])}

NextView ==
    \/ AddColumn("t1", ViewColumn)
    \/ \E o \in ViewObjects : AllocCount < MaxRows /\ AddRowObject("t1", o)
    \/ Rows("t1") # << >> /\ RemoveRow("t1", 0)
    \/ \E r \in RowIds : Set(r, "a", Num(30))
    \/ NewView("t1")
    \/ \E f \in ViewFilters : SetFilter(f)
    \/ \E n \in {"", "a"}, o \in {"asc", "desc"} : SetSort(n, o)
    \/ GetRows

SpecView == Init /\ [][NextView]_vars

\* two tables T (t1) and S (t2) whose columns differ in name, type and
\* nullability, a row in T, and updateSchema of T from S
SchemaColumns ==
    {DataColumn("a", "number", TRUE, Null), DataColumn("a", "string", FALSE, Null),
     DataColumn("b", "null", TRUE, Num(7))}
SchemaObjects == {[n \in {"a"} |-> Num(7)]}

NextSchema ==
    \/ \E t \in TableIds, c \in SchemaColumns : AddColumn(t, c)
    \/ \E t \in TableIds, n \in ColNames : RemoveColumn(t, n)
    \/ \E o \in SchemaObjects : AllocCount < MaxSetRows /\ AddRowObject("t1", o)
    \/ \E am \in BOOLEAN, re \in BOOLEAN : UpdateSchema("t1", "t2", am, re)

SpecSchema == Init /\ [][NextSchema]_vars

\* a table whose columns carry a caption, a unique flag or a primary-key
\* flag (assigned alone, or with the column non-nullable and unique), its
\* schema exported and a table imported from the schema
KeyColumn(allowNull, unique) ==
    [DataColumn("a", "number", allowNull, Null) EXCEPT
        !.isPrimaryKey = TRUE, !.unique = unique]
ImportColumns ==
    {KeyColumn(TRUE, FALSE), KeyColumn(FALSE, TRUE),
     DataColumn("a", "string", FALSE, Str(<<"a">>)),
     [DataColumn("b", "null", TRUE, Null) EXCEPT !.caption = "B", !.unique = TRUE,
                                                !.readOnly = TRUE],
     [DataColumn("b", "number", TRUE, Num(7)) EXCEPT !.caption = ""]}

NextImport ==
    \/ \E c \in ImportColumns : env.schema = NoSchema /\ AddColumn("t1", c)
    \/ \E n \in ColNames : env.schema = NoSchema /\ RemoveColumn("t1", n)
    \/ \E flag \in BOOLEAN : env.schema = NoSchema /\ SetCaseSensitive("t1", flag)
    \/ ExportSchema("t1")
    \/ ImportSchema("t3")

SpecImport == Init /\ [][NextImport]_vars

\* tables with rows whose columns are added twice and removed when absent,
\* and a dataset to which a table, and another table of the same name, is
\* added twice
NameTables == {"t1", "t3", "t4"}
NameColumns == {DataColumn(n, "null", TRUE, Num(7)) : n \in ColNames}

NextNames ==
    \/ \E t \in {"t1", "t3"}, c \in NameColumns : AddColumn(t, c)
    \/ \E t \in {"t1", "t3"}, n \in ColNames : RemoveColumn(t, n)
    \/ \E o \in ObjectInputs : AllocCount < MaxSetRows /\ AddRowObject("t1", o)
    \/ \E t \in NameTables : AddTable(t)
    \/ \E n \in {"P", ""} : RemoveTable(n)

SpecNames == Init /\ [][NextNames]_vars

\* a table made by addColumn, addRow and set alone, with a number column that
\* may be non-nullable with the default null and rows added without a value or
\* with a numeric string, and a view of it sorted by the column
SortedViewColumns == {DataColumn("a", "number", an, Null) : an \in BOOLEAN}
SortedViewObjects == {EmptyMap} \cup {[n \in {"a"} |-> v] : v \in {Num(5), Str(<<"4", "2">>)}}
SortedViewFilters == {NoFilter, CriteriaFilter([k \in {"a"} |-> Operator("$ne", Num(5))])}

NextSortedView ==
    \/ \E c \in SortedViewColumns : AddColumn("t1", c)
    \/ \E o \in SortedViewObjects : AllocCount < MaxRows /\ AddRowObject("t1", o)
    \/ \E r \in RowIds : Set(r, "a", Num(30))
    \/ NewView("t1")
    \/ \E f \in SortedViewFilters : SetFilter(f)
    \/ \E o \in {"asc", "desc"} : SetSort("a", o)
    \/ GetRows

SpecSortedView == Init /\ [][NextSortedView]_vars

\* a table, the objects select returned from it, and later writes on both sides
SelectColumn == DataColumn("a", "null", TRUE, Null)
SelectObjects == {[n \in {"a"} |-> v] : v \in {Num(7), Num(42)}}
SelectPreds == {PropPred("a", Num(7)), GetPred("a", Num(7))}

NextSelect ==
    \/ AddColumn("t1", SelectColumn)
    \/ RemoveColumn("t1", "a")
    \/ \E o \in SelectObjects : AllocCount < MaxRows /\ AddRowObject("t1", o)
    \/ \E r \in RowIds, v \in {Num(7), Num(42)} : Set(r, "a", v)
    \/ \E f \in SelectPreds : Select("t1", f)
    \/ \E i \in 1..MaxRows : AssignHeld(i, "a", Num(1))

SpecSelect == Init /\ [][NextSelect]_vars

\* a dataset of two tables with a relation each way, a column that may be
\* removed under a relation, and its clone
DsCloneColumn == DataColumn("a", "null", TRUE, Null)
DsCloneObjects == {[n \in {"a"} |-> Num(7)]}
DsCloneRelations == {<<"r1", "P", "C">>, <<"r2", "C", "P">>}

NextDsClone ==
    \/ \E t \in TableIds : env.ds2.tables = << >> /\ AddColumn(t, DsCloneColumn)
    \/ \E t \in TableIds : env.ds2.tables = << >> /\ AddTable(t)
    \/ \E x \in DsCloneRelations :
          /\ env.ds2.tables = << >>
          /\ ~HasRelation(ds.relations, x[1])
          /\ AddRelation(x[1], x[2], x[3], "a", "a")
    \/ \E t \in TableIds : RemoveColumn(t, "a")
    \/ \E t \in TableIds, o \in DsCloneObjects :
          AllocCount < MaxSetRows /\ AddRowObject(t, o)
    \/ \E t \in TableIds, o \in DsCloneObjects :
          env.ds2.tables # << >> /\ AllocCount < MaxDsRows /\ AddRowObject(t, o)
    \/ DsClone
    \/ \E r \in RowIds : CloneGetChildRows(r, "r1")

SpecDsClone == Init /\ [][NextDsClone]_vars

\* ------------------------------------------------------------ properties
\* the column and the row of the last call
LastColumns == Columns(last.t)
LastRow == heap[last.r]

\* C1: in every table the i-th column in iteration order (counting from 0)
\* has ordinal i, so the ordinals of N columns are exactly 0..N-1, after any
\* interleaving of addColumn and removeColumn.
C1_OrdinalsDense ==
    \A t \in TableIds : \A i \in 1..Len(Columns(t)) : Columns(t)[i].ordinal = i - 1

\* a column that was not the last one has been removed, and a column remains
C1_Witness ==
    /\ last.op = "removeColumn" /\ last.err = ""
    /\ last.index = 0
    /\ Len(LastColumns) >= 1

\* C2: every row in a table's row collection has a values map whose key set
\* is exactly the set of the table's column names.
C2_RowKeysAreColumns ==
    \A t \in TableIds : \A i \in 1..Len(Rows(t)) :
        DOMAIN heap[Rows(t)[i]].values = ColumnNames(Columns(t))

\* C3: a row made by addRow from an object without key c, or from an array
\* that does not reach c's ordinal, holds c's default for c; and after
\* addColumn(c) every row of the table holds c's default for c.
C3_DefaultsApplied ==
    /\ last.op = "addRowObject" =>
          \A i \in 1..Len(LastColumns) :
             LastColumns[i].columnName \notin DOMAIN last.obj =>
                Prop(LastRow.values, LastColumns[i].columnName)
                    = LastColumns[i].defaultValue
    /\ last.op = "addRowArray" =>
          \A i \in 1..Len(LastColumns) :
             LastColumns[i].ordinal >= Len(last.arr) =>
                Prop(LastRow.values, LastColumns[i].columnName)
                    = LastColumns[i].defaultValue
    /\ (last.op = "addColumn" /\ last.err = "") =>
          \A i \in 1..Len(Rows(last.t)) :
             Prop(heap[Rows(last.t)[i]].values, last.name) = last.value

\* C4: set on a column with allowNull = false raises NullNotAllowed for null
\* and for undefined, whatever the column's type, and stores neither.
C4_NullOrUndefinedRejected ==
    (/\ last.op = "set"
     /\ Contains(LastColumns, last.name)
     /\ ~GetColumn(LastColumns, last.name).allowNull
     /\ last.value \in {Null, Undef})
        => /\ last.err = "NullNotAllowed"
           /\ Prop(LastRow.values, last.name) = last.before

\* C5: set on a number column with a non-null value stores the number the
\* value converts to ("42" gives 42, true gives 1) or, for a value that is no
\* number, raises TypeCoercionError; after a successful set the column holds
\* a number or null.
NumberWritten(v) ==
    CASE v = Num(42) -> <<Num(42)>>
      [] v = Str(<<"4", "2">>) -> <<Num(42)>>
      [] v = Bool(TRUE) -> <<Num(1)>>
      [] OTHER -> << >>

C5_NumberColumnStoresNumber ==
    (/\ last.op = "set"
     /\ Contains(LastColumns, last.name)
     /\ GetColumn(LastColumns, last.name).dataType = "number")
        => LET got == RowGet(LastRow, LastColumns, last.name).value
           IN  /\ last.value # Null =>
                    IF NumberWritten(last.value) # << >>
                    THEN last.err = "" /\ got = NumberWritten(last.value)[1]
                    ELSE last.err = "TypeCoercionError"
               /\ last.err = "" => got.t = "number" \/ got = Null

\* the string "42" has been written to a number column that now holds 42
C5_Witness ==
    /\ last.op = "set" /\ last.err = ""
    /\ last.value = Str(<<"4", "2">>)
    /\ Contains(LastColumns, last.name)
    /\ GetColumn(LastColumns, last.name).dataType = "number"
    /\ LastRow.values[last.name] = Num(42)

\* C6: a set that raises an error (NotFound, NullNotAllowed or
\* TypeCoercionError) changes no row, no column, no table and no dataset.
C6_RejectedSetChangesNothing ==
    [][(last'.op = "set" /\ last'.err # "") => UNCHANGED <<tables, heap, ds>>]_vars

\* a set has been rejected on one of two rows, which an earlier set had
\* modified
C6_Witness ==
    /\ last.op = "set" /\ last.err = "TypeCoercionError"
    /\ LastRow.rowState = MODIFIED
    /\ Len(Rows(last.t)) = 2

\* C7: a successful set leaves the row MODIFIED, and a row in state ADDED is
\* a row on which no set has succeeded.
C7_SetMarksModified ==
    /\ (last.op = "set" /\ last.err = "") => LastRow.rowState = MODIFIED
    /\ \A r \in RowIds :
          (Allocated(r) /\ heap[r].rowState = ADDED) => ~hist[r].everSet

\* the first successful set on a row, which was in state ADDED until then
C7_Witness ==
    /\ last.op = "set" /\ last.err = ""
    /\ LastRow.rowState = MODIFIED
    /\ DOMAIN hist[last.r].firstPrev = {last.name}
    /\ LastRow.values[last.name] # last.before

\* C8: originalValues of a row has an entry exactly for the columns set has
\* written, and the entry is the value the column held before the first of
\* those writes (hist.firstPrev records it, by column name).
C8_OriginalIsFirstPrevious ==
    \A r \in RowIds : Allocated(r) => heap[r].originalValues = hist[r].firstPrev

\* a second set on a column: the value it replaced is not the snapshot
C8_Witness ==
    /\ last.op = "set" /\ last.err = ""
    /\ last.name \in DOMAIN LastRow.originalValues
    /\ LastRow.originalValues[last.name] # last.before
    /\ LastRow.values[last.name] # last.before

\* C9: addRow with an object gives the row that newRow followed by set for
\* every key that is a column gives: the same values, and the error of the
\* first set that fails.
RECURSIVE SetEach(_, _, _, _)
SetEach(row, cols, obj, keys) ==
    IF keys = {} THEN [err |-> "", row |-> row]
    ELSE LET k == CHOOSE k \in keys : TRUE
             res == RowSet(row, cols, k, obj[k], NaN)
         IN  IF res.err # "" THEN res
             ELSE SetEach(res.row, cols, obj, keys \ {k})

C9_AddRowObjectIsSetPerKey ==
    last.op = "addRowObject" =>
        LET bySet == SetEach(DataRow(last.t, LastColumns), LastColumns, last.obj,
                             DOMAIN last.obj \cap ColumnNames(LastColumns))
        IN  IF bySet.err # "" THEN last.err = bySet.err
            ELSE last.err = "" /\ LastRow.values = bySet.row.values

\* C10: removeRow and removeRelation raise no error; removeRow(index) with
\* 0 <= index < rowCount removes the row at index and keeps the others in
\* order, and with any other index changes no row collection;
\* removeRelation(name) removes the first relation of that name and keeps
\* the others in order, and with a name no relation has changes no relation.
Without(seq, pos) == SubSeq(seq, 1, pos - 1) \o SubSeq(seq, pos + 1, Len(seq))

Members == {ds.tables[i] : i \in 1..Len(ds.tables)}

RelationTablesAreMembers ==
    \A i \in 1..Len(ds.relations) :
        ds.relations[i].parentTable \in Members /\ ds.relations[i].childTable \in Members

C11_RemoveTableCascades ==
    /\ []RelationTablesAreMembers
    /\ [][last'.op = "removeTable" =>
            IF \E i \in 1..Len(ds.tables) : tables[ds.tables[i]].tableName = last'.name
            THEN /\ last'.err = ""
                 /\ ds'.tables = SelectSeq(ds.tables, LAMBDA u : u # last'.t)
                 /\ tables[last'.t].tableName = last'.name
                 /\ ds'.relations =
                       SelectSeq(ds.relations, LAMBDA rel :
                           rel.parentTable # last'.t /\ rel.childTable # last'.t)
                 /\ tables' = tables
            ELSE /\ last'.err = "NotFound"
                 /\ UNCHANGED <<ds, tables>>
       ]_vars

\* removeTable has removed a relation of which the table was the child and has
\* kept a relation between the tables that remain
C11_Witness ==
    /\ last.op = "removeTable" /\ last.err = ""
    /\ last.name = "C"
    /\ Len(ds.relations) = 1
    /\ last.index = 2

\* C12: no two relations of the dataset have the same relationName (an
\* addRelation with a name the dataset already has is rejected).
C12_RelationNamesUnique ==
    \A i \in 1..Len(ds.relations) : \A j \in 1..Len(ds.relations) :
        ds.relations[i].relationName = ds.relations[j].relationName => i = j

\* C13: for a relation P.a -> C.a whose parent column is unique among the
\* rows of P, getChildRows(p, relation) returns, in the order of C, exactly
\* the rows c of C with isValid(p, c), and getParentRow(c, relation) returns
\* p for each of them; both raise NotFound for a relation name the dataset
\* has not.
ParentKeyUnique(rel) ==
    \A i \in 1..Len(Rows(rel.parentTable)) : \A j \in 1..Len(Rows(rel.parentTable)) :
        Prop(heap[Rows(rel.parentTable)[i]].values, rel.parentColumn)
            = Prop(heap[Rows(rel.parentTable)[j]].values, rel.parentColumn) => i = j

C13_NavigationRoundTrip ==
    /\ (last.op \in {"getChildRows", "getParentRow"}
            /\ ~HasRelation(ds.relations, last.name)) => last.err = "NotFound"
    /\ (last.op = "getChildRows" /\ HasRelation(ds.relations, last.name)) =>
          LET rel == FindRelation(ds.relations, last.name)
          IN  (InRows(Rows(rel.parentTable), last.r) /\ ParentKeyUnique(rel)) =>
                 /\ last.err = ""
                 /\ last.out = SelectSeq(Rows(rel.childTable),
                                  LAMBDA c : IsValid(rel, heap[last.r], heap[c]))
    /\ (last.op = "getParentRow" /\ HasRelation(ds.relations, last.name)) =>
          LET rel == FindRelation(ds.relations, last.name)
          IN  (InRows(Rows(rel.childTable), last.r) /\ ParentKeyUnique(rel)) =>
                 \A i \in 1..Len(Rows(rel.parentTable)) :
                    IsValid(rel, heap[Rows(rel.parentTable)[i]], heap[last.r]) =>
                        last.err = "" /\ last.out = <<Rows(rel.parentTable)[i]>>

\* C20: findRows with a criteria object returns, in table order, exactly
\* the rows for which every entry matches: a plain value matches the value
\* that is strictly equal to it, $ne the values that are not, $in the values
\* of its array, and $gt, $gte, $lt, $lte the values that compare so with the
\* operand (numbers by value with null read as 0 and undefined comparing
\* with nothing, two strings by their characters); findOne returns the first
\* of those rows or none; neither changes a table, a row or the dataset.
AsNumber(v) == IF v.t = "null" THEN 0 ELSE v.n

Comparable(x, v) == x.t \in {"number", "null"} /\ v.t \in {"number", "null"}

Holds(x, entry) ==
    CASE entry.op = "eq" -> x = entry.v
      [] entry.op = "$ne" -> x # entry.v
      [] entry.op = "$in" -> \E i \in 1..Len(entry.vs) : entry.vs[i] = x
      [] entry.op = "$gt" ->
            IF x.t = "string" /\ entry.v.t = "string" THEN StringLess(entry.v.s, x.s)
            ELSE Comparable(x, entry.v) /\ AsNumber(x) > AsNumber(entry.v)
      [] entry.op = "$gte" -> Comparable(x, entry.v) /\ AsNumber(x) >= AsNumber(entry.v)
      [] entry.op = "$lt" -> Comparable(x, entry.v) /\ AsNumber(x) < AsNumber(entry.v)
      [] entry.op = "$lte" -> Comparable(x, entry.v) /\ AsNumber(x) <= AsNumber(entry.v)
      [] entry.op = "$contains" ->
            \E i \in 0..Len(StringOf(x).s) :
                /\ i + Len(entry.v.s) <= Len(StringOf(x).s)
                /\ \A j \in 1..Len(entry.v.s) : StringOf(x).s[i + j] = entry.v.s[j]
      [] entry.op = "none" -> FALSE

Matching(t, criteria) ==
    SelectSeq(Rows(t), LAMBDA r :
        \A key \in DOMAIN criteria : Holds(Prop(heap[r].values, key), criteria[key]))

FoundAreMatching ==
    /\ last.op = "findRows" =>
          last.err = "" /\ last.out = Matching(last.t, last.criteria)
    /\ last.op = "findOne" =>
          /\ last.err = ""
          /\ last.out = IF Matching(last.t, last.criteria) = << >> THEN << >>
                         ELSE <<Matching(last.t, last.criteria)[1]>>

C20_FindRowsMatchesEveryEntry ==
    /\ []FoundAreMatching
    /\ [][last'.op \in {"findRows", "findOne"} => UNCHANGED <<tables, heap, ds>>]_vars

\* the scenario of the specification: of the rows A (age 30) and B (age 25),
\* in either order, findRows({a: {$gt: 26}}) has returned A alone
C20_Witness ==
    /\ last.op = "findRows"
    /\ last.criteria = [k \in {"a"} |-> Operator("$gt", Num(26))]
    /\ Len(Rows(last.t)) = 2
    /\ Len(last.out) = 1
    /\ heap[last.out[1]].values["a"] = Num(30)

\* two entries have been asked for and only the second row matches both,
\* while the first row matches one of them
C20_WitnessAnd ==
    /\ last.op = "findOne"
    /\ DOMAIN last.criteria = ColNames
    /\ Len(Rows(last.t)) = 2
    /\ last.out = <<Rows(last.t)[2]>>
    /\ Holds(Prop(heap[Rows(last.t)[1]].values, "a"), last.criteria["a"])

\* C19: a sort(columnName, order) that succeeds leaves the table with the
\* rows it had, each as often as before, every row whose value for the
\* column is null after every row whose value is not, for 'asc' and for
\* 'desc', and the rows with a value in ascending (for 'asc') or descending
\* (for 'desc') order: by number on a number column, by the written form of
\* the value on a string or untyped column.
Occurrences(seq, x) == Cardinality({i \in 1..Len(seq) : seq[i] = x})

SameRows(before, after) ==
    /\ Len(before) = Len(after)
    /\ \A r \in RowIds : Occurrences(before, r) = Occurrences(after, r)

\* x comes no later than y in ascending order
Ascending(x, y, dataType) ==
    IF dataType = "number" THEN x.n <= y.n
    ELSE x = y \/ StringLess(StringOf(x).s, StringOf(y).s)

C19_SortNullsLast ==
    (last.op = "sort" /\ last.err = "" /\ Contains(LastColumns, last.name)) =>
        LET rowSeq == Rows(last.t)
            val(i) == Prop(heap[rowSeq[i]].values, last.name)
            dataType == GetColumn(LastColumns, last.name).dataType
        IN  /\ SameRows(last.out, rowSeq)
            /\ \A i \in 1..Len(rowSeq) : \A j \in 1..Len(rowSeq) :
                  (i < j /\ val(i) = Null) => val(j) = Null
            /\ \A i \in 1..Len(rowSeq) : \A j \in 1..Len(rowSeq) :
                  (i < j /\ val(i) # Null /\ val(j) # Null) =>
                      IF last.order = "asc" THEN Ascending(val(i), val(j), dataType)
                      ELSE Ascending(val(j), val(i), dataType)

\* a descending sort by a number column has moved rows and has left a row
\* with null after the rows 30 and 25
C19_Witness ==
    /\ last.op = "sort" /\ last.err = "" /\ last.order = "desc"
    /\ Contains(LastColumns, "a") /\ GetColumn(LastColumns, "a").dataType = "number"
    /\ Len(Rows(last.t)) = 3
    /\ Rows(last.t) # last.out
    /\ heap[Rows(last.t)[1]].values["a"] = Num(30)
    /\ heap[Rows(last.t)[2]].values["a"] = Num(25)
    /\ heap[Rows(last.t)[3]].values["a"] = Null

\* C17: right after clone() the clone's columns equal the source's field by
\* field (the clone owning them, ordinals included) and its rows equal the
\* source's in order (values, original values, state); afterwards an operation
\* on one of the two tables leaves the other table, its columns and its rows
\* as they were.
SameColumns(src, dst) ==
    /\ Len(Columns(dst)) = Len(Columns(src))
    /\ \A i \in 1..Len(Columns(src)) :
          Columns(dst)[i] = [Columns(src)[i] EXCEPT !.table = dst]

SameRowValues(src, dst) ==
    /\ Len(Rows(dst)) = Len(Rows(src))
    /\ \A i \in 1..Len(Rows(src)) :
          /\ Rows(dst)[i] # Rows(src)[i]
          /\ heap[Rows(dst)[i]] = [heap[Rows(src)[i]] EXCEPT !.table = dst]

CloneEqualsSource ==
    last.op = "clone" => SameColumns(last.t, env.clone) /\ SameRowValues(last.t, env.clone)

OtherTableUntouched ==
    \A u \in {"t1", env.clone} :
        u # last'.t =>
            /\ tables'[u] = tables[u]
            /\ \A i \in 1..Len(Rows(u)) : heap'[Rows(u)[i]] = heap[Rows(u)[i]]

C17_CloneEqualAndIndependent ==
    /\ []CloneEqualsSource
    /\ [][env.clone # NoTable /\ last'.op # "clone" => OtherTableUntouched]_vars

\* the rows of the source hold a value for every column of the table
SourceRowsComplete ==
    \A i \in 1..Len(Rows("t1")) :
        DOMAIN heap[Rows("t1")[i]].values = ColumnNames(Columns("t1"))

\* for a source whose rows hold a value for every column
CloneOfCompleteRows ==
    /\ [](last.op = "clone" /\ SourceRowsComplete =>
            SameColumns(last.t, env.clone) /\ SameRowValues(last.t, env.clone))
    /\ [][env.clone # NoTable /\ last'.op # "clone" => OtherTableUntouched]_vars

CloneOfModifiedRow ==
    ~(/\ last.op = "clone"
      /\ Columns("t1") # << >>
      /\ \E i \in 1..Len(Rows("t1")) : heap[Rows("t1")[i]].rowState = MODIFIED)

\* C18: the dataset that DataSet.clone returns has the source's table names
\* and the source's relations in the same order (name, table names, column
\* names); each cloned relation's parent and child table is a table of the
\* clone and none of the source, and its parent and child column is a column
\* that table holds; getChildRows on the clone returns rows of the clone's
\* tables only.
TableNames(d) == [i \in 1..Len(d.tables) |-> tables[d.tables[i]].tableName]

InDataset(d, t) == \E i \in 1..Len(d.tables) : d.tables[i] = t

OwnedBy(d, t, name) ==
    /\ InDataset(d, t)
    /\ Contains(Columns(t), name)
    /\ GetColumn(Columns(t), name).table = t

SameRelation(rel2, rel) ==
    /\ rel2.relationName = rel.relationName
    /\ rel2.parentColumn = rel.parentColumn
    /\ rel2.childColumn = rel.childColumn
    /\ tables[rel2.parentTable].tableName = tables[rel.parentTable].tableName
    /\ tables[rel2.childTable].tableName = tables[rel.childTable].tableName

DsCloneReturned == last.op = "dsClone" /\ last.err = ""

CloneRelationsResolved ==
    DsCloneReturned =>
        /\ TableNames(env.ds2) = TableNames(ds)
        /\ \A i \in 1..Len(env.ds2.tables) : ~InDataset(ds, env.ds2.tables[i])
        /\ Len(env.ds2.relations) = Len(ds.relations)
        /\ \A i \in 1..Len(ds.relations) :
              LET rel2 == env.ds2.relations[i]
              IN  /\ SameRelation(rel2, ds.relations[i])
                  /\ OwnedBy(env.ds2, rel2.parentTable, rel2.parentColumn)
                  /\ OwnedBy(env.ds2, rel2.childTable, rel2.childColumn)
                  /\ ~InDataset(ds, rel2.parentTable)
                  /\ ~InDataset(ds, rel2.childTable)

\* the table getChildRows scans on the clone is a table of the clone, and so
\* is the table of every row it returns
CloneReadsCloneRows ==
    /\ \A i \in 1..Len(env.ds2.relations) :
          /\ InDataset(env.ds2, env.ds2.relations[i].childTable)
          /\ ~InDataset(ds, env.ds2.relations[i].childTable)
    /\ last.op = "cloneGetChildRows" =>
          \A i \in 1..Len(last.out) : InDataset(env.ds2, heap[last.out[i]].table)

DsCloneRaised == ~(last.op = "dsClone" /\ last.err = "TypeError")

\* C16: an object that select returned keeps the content it had when select
\* returned, whatever set and removeColumn do on the table afterwards, and
\* assigning a property of such an object changes no row of the table.
HeldAsSeen ==
    \A i \in 1..Len(env.held) : heap[env.held[i].ref].values = env.held[i].seen

C16_SelectReturnsSnapshots ==
    /\ []HeldAsSeen
    /\ [][last'.op = "assignHeld" => heap' = heap]_vars

\* the two halves of C16, each on its own
HeldWriteLeavesRows == [][last'.op = "assignHeld" => heap' = heap]_vars

\* C14: getRows returns the rows of the current table that pass the current
\* filter, with their current values, in table order or in the order of the
\* current sort (nulls last); a getRows that follows a getRows returns the
\* same; getRows, setFilter and setSort leave the table's columns, rows and
\* row order, and every row, as they were.
ValuesOf(returned) == [i \in 1..Len(returned) |-> returned[i].row.values]

Rearranged(xs, ys) ==
    /\ Len(xs) = Len(ys)
    /\ \A i \in 1..Len(xs) :
          Cardinality({j \in 1..Len(xs) : xs[j] = xs[i]})
              = Cardinality({j \in 1..Len(ys) : ys[j] = xs[i]})

InSortOrder(vals, name, order) ==
    \A i \in 1..Len(vals) : \A j \in 1..Len(vals) :
        i < j =>
            /\ vals[i][name] = Null => vals[j][name] = Null
            /\ (vals[i][name] # Null /\ vals[j][name] # Null) =>
                  IF order = "asc" THEN vals[i][name].n <= vals[j][name].n
                  ELSE vals[j][name].n <= vals[i][name].n

ViewReflectsTable ==
    (last.op = "getRows" /\ last.err = "") =>
        LET passing == ViewFiltered(env.view).rows
            current == [i \in 1..Len(passing) |-> heap[passing[i]].values]
        IN  /\ Rearranged(ValuesOf(last.rows), current)
            /\ env.view.sort = "" => ValuesOf(last.rows) = current
            /\ (env.view.sort # "" /\ Contains(Columns(env.view.table), env.view.sort)) =>
                  InSortOrder(ValuesOf(last.rows), env.view.sort, env.view.order)

ViewStep ==
    /\ (last.op = "getRows" /\ last'.op = "getRows") => last' = last
    /\ last'.op \in {"getRows", "setFilter", "setSort"} => UNCHANGED <<tables, heap, ds>>

C14_ViewIsFunctionOfState == []ViewReflectsTable /\ [][ViewStep]_vars

\* a sorted view of two rows, one of them changed by set, returned in an order
\* that is not the table's
C14_Witness ==
    /\ last.op = "getRows" /\ last.err = ""
    /\ env.view.sort = "a"
    /\ Len(last.rows) = 2
    /\ ValuesOf(last.rows) # [i \in 1..Len(Rows("t1")) |-> heap[Rows("t1")[i]].values]
    /\ \E i \in 1..Len(Rows("t1")) : hist[Rows("t1")[i]].everSet

\* C15: with no sort, getRows of a view with the filter f returns the rows
\* that findRows(f) returns on the view's table, in the same order, and raises
\* what findRows(f) raises.
TableFind(t, filter) ==
    IF filter.kind = "function" THEN FindRowsByFunction(t, filter.pred)
    ELSE [err |-> "", rows |-> FindRowsByCriteria(t, filter.criteria)]

C15_ViewEqualsFindRows ==
    (last.op = "getRows" /\ env.view.sort = "" /\ env.view.filter.kind # "null") =>
        LET found == TableFind(env.view.table, env.view.filter)
        IN  /\ last.err = found.err
            /\ [i \in 1..Len(last.rows) |-> last.rows[i].ref] = found.rows

\* the same for the filters that are criteria objects
ViewEqualsFindRowsByCriteria ==
    (last.op = "getRows" /\ env.view.sort = "" /\ env.view.filter.kind = "criteria") =>
        LET found == TableFind(env.view.table, env.view.filter)
        IN  /\ last.err = found.err
            /\ [i \in 1..Len(last.rows) |-> last.rows[i].ref] = found.rows

\* C21: updateSchema(S, true, true) returns its report and leaves T with the
\* column names of S, each with the type and the nullability of S's column;
\* updateSchema(S, true, false) returns its report and leaves T with its own
\* columns and every column of S.
SchemaOf(cols) ==
    [n \in ColumnNames(cols) |->
        [dataType |-> GetColumn(cols, n).dataType, allowNull |-> GetColumn(cols, n).allowNull]]

UpdateSchemaReconciles ==
    (last'.op = "updateSchema" /\ last'.index \in {2, 3}) =>
        /\ last'.err = ""
        /\ last'.index = 3 =>
              SchemaOf(tables'["t1"].columns) = SchemaOf(Columns("t2"))
        /\ last'.index = 2 =>
              ColumnNames(tables'["t1"].columns)
                  = ColumnNames(Columns("t1")) \cup ColumnNames(Columns("t2"))

C21_UpdateSchemaReconciles == [][UpdateSchemaReconciles]_vars

\* what updateSchema does: it raises when it is to add and T has a column S
\* lacks, or is to remove and S has a column T lacks; when it returns, T has
\* the columns it had, those it shares with S with S's type and nullability
UpdateSchemaNormalizesShared ==
    last'.op = "updateSchema" =>
        LET add == last'.index \in {2, 3}
            remove == last'.index \in {1, 3}
            own == ColumnNames(Columns("t1")) \ ColumnNames(Columns("t2"))
            foreign == ColumnNames(Columns("t2")) \ ColumnNames(Columns("t1"))
        IN  /\ last'.err = (IF add /\ own # {} THEN "TypeError"
                            ELSE IF remove /\ foreign # {} THEN "NotFound" ELSE "")
            /\ heap' = heap
            /\ ColumnNames(tables'["t1"].columns) = ColumnNames(Columns("t1"))
            /\ last'.err # "" => tables' = tables
            /\ last'.err = "" =>
                  \A n \in ColumnNames(Columns("t1")) \cap ColumnNames(Columns("t2")) :
                      SchemaOf(tables'["t1"].columns)[n] = SchemaOf(Columns("t2"))[n]

UpdateSchemaAsCoded == [][UpdateSchemaNormalizesShared]_vars

\* C22: the table importSchema makes from an exported schema has no rows,
\* and its exportSchema is that schema: table name, case-sensitivity flag,
\* the columns in order with every exported attribute, and the primary key.
ImportRoundTrip ==
    /\ last.err = ""
    /\ Rows(last.t) = << >>
    /\ ExportedSchema(last.t) = env.schema

C22_SchemaRoundTrip == last.op = "importSchema" => ImportRoundTrip

\* the round trip for schemas whose primary-key columns are exported
\* non-nullable and unique and whose captions are not empty
KeysNormalized(schema) ==
    \A i \in 1..Len(schema.columns) :
        LET columnDef == schema.columns[i]
        IN  /\ columnDef.caption # ""
            /\ (\E j \in 1..Len(schema.primaryKey.names) :
                    schema.primaryKey.names[j] = columnDef.name)
                  => (~columnDef.allowNull /\ columnDef.unique)

RoundTripOfNormalizedKeys ==
    (last.op = "importSchema" /\ KeysNormalized(env.schema)) => ImportRoundTrip

RoundTripWithKey ==
    ~(last.op = "importSchema" /\ KeysNormalized(env.schema)
      /\ ~env.schema.primaryKey.isNull /\ Len(env.schema.columns) = 2)

\* C23: the column names of a table are distinct and the table names of the
\* dataset are distinct; add with a name the table has raises DuplicateName,
\* addTable with a name the dataset has raises DuplicateName, remove of a
\* name the table lacks raises NotFound, and each of these leaves the tables,
\* their columns and ordinals, every row and the dataset as they were.
NamesUnique ==
    /\ \A t \in TableSlots : Cardinality(ColumnNames(Columns(t))) = Len(Columns(t))
    /\ \A i \in 1..Len(ds.tables) : \A j \in 1..Len(ds.tables) :
          tables[ds.tables[i]].tableName = tables[ds.tables[j]].tableName => i = j

DuplicateOrAbsent ==
    \/ last'.op = "addColumn" /\ Contains(Columns(last'.t), last'.name)
    \/ last'.op = "removeColumn" /\ ~Contains(Columns(last'.t), last'.name)
    \/ last'.op = "addTable" /\ DsHasTable(last'.name)

RejectedByName ==
    /\ DuplicateOrAbsent =>
          /\ last'.err = (IF last'.op = "removeColumn" THEN "NotFound" ELSE "DuplicateName")
          /\ UNCHANGED <<tables, heap, ds>>
    /\ (last'.op \in {"addColumn", "removeColumn", "addTable"} /\ ~DuplicateOrAbsent) =>
          last'.err = ""

C23_NamesUnique == []NamesUnique /\ [][RejectedByName]_vars

\* a duplicate column rejected on a table that has a row, in a dataset that
\* holds a table
C23_Witness ==
    /\ last.op = "addColumn" /\ last.err = "DuplicateName"
    /\ Rows(last.t) # << >>
    /\ ds.tables # << >>

C23_WitnessTable == last.op = "addTable" /\ last.err = "DuplicateName" /\ last.t = "t4"

C23_WitnessRemove ==
    last.op = "removeColumn" /\ last.err = "NotFound" /\ Rows(last.t) # << >>

\* C24: getRows of a view sorted by a column of its table raises nothing and
\* returns one row for every row that passes the filter, with the values of
\* that row, in the order of the sort.
SortedViewApplies ==
    /\ last.op = "getRows"
    /\ env.view.sort # ""
    /\ Contains(Columns(env.view.table), env.view.sort)

C24_SortedViewReturnsEveryRow ==
    SortedViewApplies =>
        LET passing == ViewFiltered(env.view).rows
            current == [i \in 1..Len(passing) |-> heap[passing[i]].values]
        IN  /\ last.err = ""
            /\ Rearranged(ValuesOf(last.rows), current)
            /\ InSortOrder(ValuesOf(last.rows), env.view.sort, env.view.order)

\* the two ways it fails: getRows raises, or returns a row whose value is not
\* the value of its source row
SortedViewRaises == ~(SortedViewApplies /\ last.err = "NullNotAllowed")

SortedViewConverts ==
    ~(/\ SortedViewApplies /\ last.err = ""
      /\ ValuesOf(last.rows)
            # [i \in 1..Len(ViewFiltered(env.view).rows) |->
                  heap[ViewFiltered(env.view).rows[i]].values]
      /\ Len(last.rows) = 1)


\* ---------------------------------------------------------------------------
\* C25  one operator object, several operators

HasOperator(entry, op) == \E i \in 1..Len(entry.vs) : entry.vs[i].op = op

TheOperator(entry, op) == entry.vs[CHOOSE i \in 1..Len(entry.vs) : entry.vs[i].op = op]

\* the operator of the object that comes first in the order $gt, $gte, $lt,
\* $lte, $ne, $in, $contains, whatever the order the object was written in
FirstInFixedOrder(entry) ==
    IF HasOperator(entry, "$gt") THEN TheOperator(entry, "$gt")
    ELSE IF HasOperator(entry, "$gte") THEN TheOperator(entry, "$gte")
    ELSE IF HasOperator(entry, "$lt") THEN TheOperator(entry, "$lt")
    ELSE IF HasOperator(entry, "$lte") THEN TheOperator(entry, "$lte")
    ELSE IF HasOperator(entry, "$ne") THEN TheOperator(entry, "$ne")
    ELSE IF HasOperator(entry, "$in") THEN TheOperator(entry, "$in")
    ELSE IF HasOperator(entry, "$contains") THEN TheOperator(entry, "$contains")
    ELSE [op |-> "none", v |-> Undef, vs |-> << >>]

\* the criteria with every operator object cut down to that one operator
CutToFirst(criteria) ==
    [key \in DOMAIN criteria |->
        IF criteria[key].op = "object" THEN FirstInFixedOrder(criteria[key])
        ELSE criteria[key]]

SeveralOperators(criteria) ==
    \E key \in DOMAIN criteria :
        criteria[key].op = "object" /\ Len(criteria[key].vs) >= 2

FirstOperatorDecides ==
    /\ last.op = "findRows" /\ SeveralOperators(last.criteria) =>
          last.err = "" /\ last.out = Matching(last.t, CutToFirst(last.criteria))
    /\ last.op = "findOne" /\ SeveralOperators(last.criteria) =>
          /\ last.err = ""
          /\ last.out = IF Matching(last.t, CutToFirst(last.criteria)) = << >> THEN << >>
                         ELSE <<Matching(last.t, CutToFirst(last.criteria))[1]>>

\* C25: when the operator object of a criteria entry holds several operators,
\* findRows returns exactly the rows that satisfy the first of them in the
\* order $gt, $gte, $lt, $lte, $ne, $in, $contains; the other operators of
\* the object have no effect on the result
C25_FirstOperatorDecides == []FirstOperatorDecides

\* findRows({a: {$lt: 28, $gt: 26}}) has returned a row whose a is 30: $gt
\* decided although $lt was written first and does not hold for the row
C25_Witness ==
    /\ last.op = "findRows"
    /\ last.criteria =
          [k \in {"a"} |->
              Operators(<<Operator("$lt", Num(28)), Operator("$gt", Num(26))>>)]
    /\ \E i \in 1..Len(last.out) : Prop(heap[last.out[i]].values, "a") = Num(30)
    /\ \E i \in 1..Len(Rows(last.t)) :
          Prop(heap[Rows(last.t)[i]].values, "a") = Num(25)


\* ---------------------------------------------------------------------------
\* C26  a relation whose column was removed

\* the relation the last lookup went through
LastRelation == FindRelation(ds.relations, last.name)

ParentColumnGone(relation) ==
    ~Contains(Columns(relation.parentTable), relation.parentColumn)

ChildColumnGone(relation) ==
    ~Contains(Columns(relation.childTable), relation.childColumn)

\* the last call was getChildRows with a row of the relation's parent table,
\* or getParentRow with a row of its child table
LookedUpChildren ==
    /\ last.op = "getChildRows" /\ HasRelation(ds.relations, last.name)
    /\ heap[last.r].table = LastRelation.parentTable

LookedUpParent ==
    /\ last.op = "getParentRow" /\ HasRelation(ds.relations, last.name)
    /\ heap[last.r].table = LastRelation.childTable

RemoveColumnKeepsRelations ==
    last'.op = "removeColumn" => ds' = ds

OrphanLookupFails ==
    (LookedUpChildren \/ LookedUpParent) =>
        IF ParentColumnGone(LastRelation) \/ ChildColumnGone(LastRelation)
        THEN last.err = "NotFound"
        ELSE last.err # "NotFound"

OwnColumnLookupFails ==
    /\ LookedUpChildren => (last.err = "NotFound" <=> ParentColumnGone(LastRelation))
    /\ LookedUpParent => (last.err = "NotFound" <=> ChildColumnGone(LastRelation))

OrphanRaisesTypeError ==
    /\ LookedUpChildren /\ ChildColumnGone(LastRelation)
    /\ ~ParentColumnGone(LastRelation)
    /\ Len(Rows(LastRelation.childTable)) > 0
    /\ last.err = "TypeError"

\* getChildRows after the child column was removed from a child table with
\* no row: no error and no row
OrphanReturnsNothing ==
    /\ LookedUpChildren /\ ChildColumnGone(LastRelation)
    /\ ~ParentColumnGone(LastRelation)
    /\ last.err = "" /\ last.out = << >>

====
